---------------------------- MODULE Spec2Model ----------------------------
(***************************************************************************)
(* KidSafe Alphabet Tutor: the tutoring session engine.                    *)
(*                                                                         *)
(* State: the MemoryService store (sessions: history window and derived    *)
(* state per session identifier), its max_turns, and the CurriculumService *)
(* lesson table.  One action per operation of MemoryService, AgentService  *)
(* and of the voice pipeline's event handlers.  Texts are strings and the  *)
(* text functions (lower, strip, split, substring tests) are computed on   *)
(* their characters.                                                       *)
(*                                                                         *)
(* Abstractions: datetime.now() is the ordinal of the entry within its     *)
(* session (the order of the appends); session_start and the tutor's       *)
(* system prompt text are not kept; better_profanity's word list is the    *)
(* short list CensorWords.                                                 *)
(***************************************************************************)
EXTENDS Integers, Sequences, FiniteSets, TLC

(***************************************************************************)
(* Python values                                                           *)
(***************************************************************************)
\* Python's None (no text of the model is this string)
None == "<None>"

Min(a, b) == IF a < b THEN a ELSE b
Max(a, b) == IF a > b THEN a ELSE b

(***************************************************************************)
(* str methods                                                             *)
(***************************************************************************)
UpperChars == "ABCDEFGHIJKLMNOPQRSTUVWXYZ"
LowerChars == "abcdefghijklmnopqrstuvwxyz"
DigitChars == "0123456789"

CharAt(s, i) == SubSeq(s, i, i)

\* sub in s
Contains(sub, s) ==
    \E i \in 1..(Len(s) - Len(sub) + 1) : SubSeq(s, i, i + Len(sub) - 1) = sub

IsCharOf(c, chars) == \E i \in 1..Len(chars) : CharAt(chars, i) = c

IndexIn(c, chars) == CHOOSE i \in 1..Len(chars) : CharAt(chars, i) = c

LowerChar(c) == IF IsCharOf(c, UpperChars) THEN CharAt(LowerChars, IndexIn(c, UpperChars)) ELSE c
UpperChar(c) == IF IsCharOf(c, LowerChars) THEN CharAt(UpperChars, IndexIn(c, LowerChars)) ELSE c

RECURSIVE Lower(_)
\* s.lower()
Lower(s) == IF s = "" THEN "" ELSE LowerChar(Head(s)) \o Lower(Tail(s))

RECURSIVE Upper(_)
\* s.upper()
Upper(s) == IF s = "" THEN "" ELSE UpperChar(Head(s)) \o Upper(Tail(s))

IsSpace(c) == c = " "
IsAlnum(c) == IsCharOf(c, UpperChars) \/ IsCharOf(c, LowerChars) \/ IsCharOf(c, DigitChars)
IsDigit(c) == IsCharOf(c, DigitChars)
\* a regular expression's \w
IsWordChar(c) == IsAlnum(c) \/ c = "_"

RECURSIVE LStrip(_)
LStrip(s) == IF s # "" /\ IsSpace(Head(s)) THEN LStrip(Tail(s)) ELSE s

RECURSIVE RStrip(_)
RStrip(s) ==
    IF s # "" /\ IsSpace(CharAt(s, Len(s))) THEN RStrip(SubSeq(s, 1, Len(s) - 1)) ELSE s

\* s.strip()
Strip(s) == RStrip(LStrip(s))

\* s.split(sep)[-1]: what follows the last occurrence of sep (all of s without one)
SplitLast(s, sep) ==
    LET starts == {i \in 1..(Len(s) - Len(sep) + 1) : SubSeq(s, i, i + Len(sep) - 1) = sep}
    IN  IF starts = {} THEN s
        ELSE LET i == CHOOSE j \in starts : \A k \in starts : k <= j
             IN  SubSeq(s, i + Len(sep), Len(s))

\* s.split()[0] of a text that is not all whitespace
FirstToken(s) ==
    LET t == LStrip(s)
        ends == {i \in 1..Len(t) : IsSpace(CharAt(t, i))}
    IN  IF ends = {} THEN t
        ELSE SubSeq(t, 1, (CHOOSE j \in ends : \A k \in ends : j <= k) - 1)

\* s.isalpha()
IsAlpha(s) ==
    /\ s # ""
    /\ \A i \in 1..Len(s) : IsCharOf(CharAt(s, i), UpperChars) \/ IsCharOf(CharAt(s, i), LowerChars)

\* s.capitalize()
Capitalize(s) == IF s = "" THEN "" ELSE UpperChar(Head(s)) \o Lower(Tail(s))

\* any(k in text for k in keywords), keywords a sequence
AnyIn(keywords, text) == \E i \in 1..Len(keywords) : Contains(keywords[i], text)

\* s.replace(" ", "_")
RECURSIVE ReplaceSpaces(_)
ReplaceSpaces(s) ==
    IF s = "" THEN ""
    ELSE (IF Head(s) = " " THEN "_" ELSE Head(s)) \o ReplaceSpaces(Tail(s))

(***************************************************************************)
(* Regular expressions of SafetyService.pii_patterns (re.IGNORECASE).      *)
(* MatchEnd(k, text, i) is the last position of pattern k's match that     *)
(* starts at position i, and 0 when the pattern does not match there.      *)
(***************************************************************************)
\* \b between positions p - 1 and p
WordBoundary(text, p) ==
    LET before == p > 1 /\ p - 1 <= Len(text) /\ IsWordChar(CharAt(text, p - 1))
        after == p >= 1 /\ p <= Len(text) /\ IsWordChar(CharAt(text, p))
    IN  before # after

\* the digits-and-dashes shape of SSN and phone: shape[n] is "d" or "-"
MatchShape(shape, text, i) ==
    IF /\ i + Len(shape) - 1 <= Len(text)
       /\ \A n \in 1..Len(shape) :
            IF CharAt(shape, n) = "d" THEN IsDigit(CharAt(text, i + n - 1))
            ELSE CharAt(text, i + n - 1) = "-"
       /\ WordBoundary(text, i)
       /\ WordBoundary(text, i + Len(shape))
    THEN i + Len(shape) - 1
    ELSE 0

\* last position of the maximal run of characters satisfying the class from i (i - 1 when empty)
RunEnd(text, i, chars) ==
    LET stops == {p \in i..Len(text) : ~IsCharOf(CharAt(text, p), chars)}
    IN  IF stops = {} THEN Len(text)
        ELSE (CHOOSE p \in stops : \A q \in stops : p <= q) - 1

SetMax(S) == CHOOSE m \in S : \A n \in S : n <= m

AlnumChars == UpperChars \o LowerChars \o DigitChars
\* \w and \s
WordChars == AlnumChars \o "_"
SpaceChars == " "
EmailLocalChars == AlnumChars \o "._%+-"
EmailDomainChars == AlnumChars \o ".-"
\* [A-Z|a-z]: the letters and the bar
EmailTldChars == UpperChars \o "|" \o LowerChars

\* \b[A-Za-z0-9._%+-]+@[A-Za-z0-9.-]+\.[A-Z|a-z]{2,}\b
MatchEmail(text, i) ==
    LET at == RunEnd(text, i, EmailLocalChars) + 1
        dEnd == RunEnd(text, at + 1, EmailDomainChars)
        \* ends of a top-level domain after the dot at q: at least 2 characters, then \b
        tldEnds(q) == {t \in (q + 2)..RunEnd(text, q + 1, EmailTldChars) : WordBoundary(text, t + 1)}
        dots == {q \in (at + 2)..dEnd : CharAt(text, q) = "." /\ tldEnds(q) # {}}
    IN  IF /\ i <= Len(text)
           /\ WordBoundary(text, i)
           /\ at > i
           /\ at <= Len(text)
           /\ CharAt(text, at) = "@"
           /\ dots # {}
        THEN SetMax(tldEnds(SetMax(dots)))
        ELSE 0

StreetWords == <<"street", "st", "avenue", "ave", "road", "rd", "drive", "dr">>

\* \b\d{1,5}\s+\w+\s+(street|st|avenue|ave|road|rd|drive|dr)\b
MatchAddress(text, i) ==
    LET dEnd == RunEnd(text, i, DigitChars)
        s1End == RunEnd(text, dEnd + 1, SpaceChars)
        wEnd == RunEnd(text, s1End + 1, WordChars)
        s2End == RunEnd(text, wEnd + 1, SpaceChars)
        ok(n) == /\ s2End + Len(StreetWords[n]) <= Len(text)
                 /\ Lower(SubSeq(text, s2End + 1, s2End + Len(StreetWords[n]))) = StreetWords[n]
                 /\ WordBoundary(text, s2End + Len(StreetWords[n]) + 1)
        alts == {n \in 1..Len(StreetWords) : ok(n)}
    IN  IF /\ i <= Len(text)
           /\ WordBoundary(text, i)
           /\ dEnd >= i
           /\ dEnd - i + 1 <= 5
           /\ s1End > dEnd
           /\ wEnd > s1End
           /\ s2End > wEnd
           /\ alts # {}
        THEN s2End + Len(StreetWords[CHOOSE n \in alts : \A m \in alts : n <= m])
        ELSE 0

\* SafetyService.pii_patterns, in order
NumPiiPatterns == 4

MatchEnd(k, text, i) ==
    CASE k = 1 -> MatchShape("ddd-dd-dddd", text, i)
      [] k = 2 -> MatchShape("ddd-ddd-dddd", text, i)
      [] k = 3 -> MatchEmail(text, i)
      [] k = 4 -> MatchAddress(text, i)

\* re.search(pattern k, text)
ReSearch(k, text) == \E i \in 1..Len(text) : MatchEnd(k, text, i) > 0

RECURSIVE ReSubFrom(_, _, _, _)
ReSubFrom(k, repl, text, p) ==
    IF p > Len(text) THEN ""
    ELSE LET e == MatchEnd(k, text, p)
         IN  IF e > 0 THEN repl \o ReSubFrom(k, repl, text, e + 1)
             ELSE CharAt(text, p) \o ReSubFrom(k, repl, text, p + 1)

\* re.sub(pattern k, repl, text)
ReSub(k, repl, text) == ReSubFrom(k, repl, text, 1)

(***************************************************************************)
(* better_profanity, on the word list CensorWords                          *)
(***************************************************************************)
CensorWords == <<"damn", "crap">>

\* last position of a censored word starting at i (a whole word, any case), or 0
MatchProfanity(text, i) ==
    LET hits == {n \in 1..Len(CensorWords) :
                    /\ i + Len(CensorWords[n]) - 1 <= Len(text)
                    /\ Lower(SubSeq(text, i, i + Len(CensorWords[n]) - 1)) = CensorWords[n]
                    /\ (i = 1 \/ ~IsAlnum(CharAt(text, i - 1)))
                    /\ (i + Len(CensorWords[n]) > Len(text)
                        \/ ~IsAlnum(CharAt(text, i + Len(CensorWords[n]))))}
    IN  IF hits = {} THEN 0
        ELSE i + Len(CensorWords[CHOOSE n \in hits : TRUE]) - 1

RECURSIVE CensorFrom(_, _)
CensorFrom(text, p) ==
    IF p > Len(text) THEN ""
    ELSE LET e == MatchProfanity(text, p)
         IN  IF e > 0 THEN "****" \o CensorFrom(text, e + 1)
             ELSE CharAt(text, p) \o CensorFrom(text, p + 1)

\* profanity.censor(text)
Censor(text) == CensorFrom(text, 1)

\* profanity.contains_profanity(text)
ContainsProfanity(text) == \E i \in 1..Len(text) : MatchProfanity(text, i) > 0

(***************************************************************************)
(* SafetyService                                                           *)
(***************************************************************************)
unsafe_topics ==
    <<"violence", "scary", "death", "blood", "weapon", "gun", "knife",
      "stranger", "secret", "password", "address", "phone number",
      "where do you live", "what school", "parents work">>

\* _detect_pii: one code however many patterns match
detect_pii(text) ==
    IF \E k \in 1..NumPiiPatterns : ReSearch(k, text) THEN <<"pii_detected">> ELSE <<>>

RECURSIVE RemovePiiFrom(_, _)
RemovePiiFrom(text, k) ==
    IF k > NumPiiPatterns THEN text
    ELSE RemovePiiFrom(ReSub(k, "[REMOVED]", text), k + 1)

\* _remove_pii: every pattern in turn, on the result of the one before
remove_pii(text) == RemovePiiFrom(text, 1)

RECURSIVE UnsafeTopicsFrom(_, _)
UnsafeTopicsFrom(text_lower, n) ==
    IF n > Len(unsafe_topics) THEN <<>>
    ELSE (IF Contains(unsafe_topics[n], text_lower)
          THEN <<"unsafe_topic_" \o ReplaceSpaces(unsafe_topics[n])>>
          ELSE <<>>) \o UnsafeTopicsFrom(text_lower, n + 1)

\* _detect_unsafe_topics
detect_unsafe_topics(text) == UnsafeTopicsFrom(Lower(text), 1)

\* moderate_content handing back the text in lower case
moderate_content_lowered(text) ==
    LET profane == ContainsProfanity(text)
        v1 == IF profane THEN <<"inappropriate_language">> ELSE <<>>
        c1 == IF profane THEN Censor(text) ELSE text
        pii_found == detect_pii(text)
        c2 == IF pii_found # <<>> THEN remove_pii(c1) ELSE c1
        unsafe_found == detect_unsafe_topics(text)
        violations == v1 \o pii_found \o unsafe_found
    IN  [is_safe |-> Len(violations) = 0, cleaned_text |-> Lower(c2), violations |-> violations]

\* moderate_content stopping at the first stage that finds something
moderate_content_first(text) ==
    LET profane == ContainsProfanity(text)
        pii_found == detect_pii(text)
        unsafe_found == detect_unsafe_topics(text)
        violations == IF profane THEN <<"inappropriate_language">>
                      ELSE IF pii_found # <<>> THEN pii_found
                      ELSE unsafe_found
        cleaned == IF profane THEN Censor(text)
                   ELSE IF pii_found # <<>> THEN remove_pii(text)
                   ELSE text
    IN  [is_safe |-> Len(violations) = 0, cleaned_text |-> cleaned, violations |-> violations]

\* moderate_content: (is_safe, cleaned_text, violations)
moderate_content(text) ==
    LET profane == ContainsProfanity(text)
        v1 == IF profane THEN <<"inappropriate_language">> ELSE <<>>
        c1 == IF profane THEN Censor(text) ELSE text
        pii_found == detect_pii(text)
        c2 == IF pii_found # <<>> THEN remove_pii(c1) ELSE c1
        unsafe_found == detect_unsafe_topics(text)
        violations == v1 \o pii_found \o unsafe_found
    IN  [is_safe |-> Len(violations) = 0, cleaned_text |-> c2, violations |-> violations]

LanguageResponse == "Let's use kind words! Can we try saying that in a nicer way?"
PiiResponse == "Remember, we don't share personal information! Let's focus on learning letters instead."
TopicResponse == "That's not something we talk about in our alphabet lessons. Let's learn about letters instead!"
GenericResponse == "Let's keep our conversation about learning letters! What letter would you like to practice?"

\* generate_safe_response going by the first violation of the list
generate_safe_response_first(violations) ==
    IF violations = <<>> THEN GenericResponse
    ELSE IF violations[1] = "inappropriate_language" THEN LanguageResponse
    ELSE IF Contains("pii", violations[1]) THEN PiiResponse
    ELSE IF Contains("unsafe_topic", violations[1]) THEN TopicResponse
    ELSE GenericResponse

\* generate_safe_response
generate_safe_response(violations) ==
    IF \E n \in 1..Len(violations) : violations[n] = "inappropriate_language" THEN LanguageResponse
    ELSE IF \E n \in 1..Len(violations) : Contains("pii", violations[n])
         THEN PiiResponse
    ELSE IF \E n \in 1..Len(violations) : Contains("unsafe_topic", violations[n]) THEN TopicResponse
    ELSE GenericResponse

learning_keywords ==
    <<"letter", "alphabet", "sound", "word", "learn", "teach", "practice",
      "phonics", "pronunciation", "spell", "say", "repeat">>

inappropriate_keywords ==
    <<"hack", "break", "destroy", "kill", "hurt", "bad words",
      "password", "login", "account", "money", "buy", "sell">>

\* is_child_appropriate_request
is_child_appropriate_request(text) ==
    LET text_lower == Lower(text)
        has_learning_context == AnyIn(learning_keywords, text_lower)
        has_inappropriate_content == AnyIn(inappropriate_keywords, text_lower)
    IN  has_learning_context /\ ~has_inappropriate_content

(***************************************************************************)
(* CurriculumService                                                       *)
(***************************************************************************)
LetterSet == {CharAt(UpperChars, i) : i \in 1..Len(UpperChars)}

\* ord() and chr() on the letters
Ord(c) ==
    IF IsCharOf(c, UpperChars) THEN 64 + IndexIn(c, UpperChars)
    ELSE 96 + IndexIn(c, LowerChars)

Chr(n) == IF n <= 90 THEN CharAt(UpperChars, n - 64) ELSE CharAt(LowerChars, n - 96)

\* _get_default_lessons: the fallback table, the letter A alone
DefaultLessons ==
    [L \in {"A"} |->
        [phoneme_clue |-> "ah",
         examples |-> <<"Apple", "Ant", "Alligator">>,
         activity |-> "Can you find something in the room that starts with the letter A?",
         prompt |-> "This is the letter A. It makes the 'ah' sound, like in apple. Can you say 'ah'?"]]

\* _load_lessons of a lessons file that covers A..Z
FileLessons ==
    [L \in LetterSet |->
        [phoneme_clue |-> Lower(L) \o "h",
         examples |-> <<L \o "-word">>,
         activity |-> "Find " \o L,
         prompt |-> "Say " \o L]]

\* the sounds of one lesson: clue, letter, examples, lowercased
LessonSounds(letter, data) ==
    <<Lower(data.phoneme_clue), Lower(letter)>>
        \o [n \in 1..Len(data.examples) |-> Lower(data.examples[n])]

\* _build_phoneme_map
build_phoneme_map(table) == [L \in DOMAIN table |-> LessonSounds(L, table[L])]

\* What open() and json.load find at lessons_file when a load runs:
\*   missing     no such file (FileNotFoundError)
\*   corrupt     text that is not JSON, an empty file included (JSONDecodeError)
\*   unreadable  a file open() or read() cannot deliver (PermissionError,
\*               IsADirectoryError, UnicodeDecodeError)
\*   empty       the JSON mapping {}
\*   malformed   a JSON mapping whose value for A is a string, not a lesson
\*   valid       a lessons file that covers A..Z
LessonFiles == {"missing", "corrupt", "unreadable", "empty", "malformed", "valid"}

\* json.load of the mapping {}
EmptyLessons == [L \in {} |-> DefaultLessons["A"]]

\* json.load of {"A": "apple"}
MalformedLessons == [L \in {"A"} |-> [text |-> "apple"]]

\* _load_lessons: the table it returns, or the exception it lets through
\* (only FileNotFoundError and JSONDecodeError are caught)
load_lessons(file) ==
    CASE file = "missing" -> [raised |-> FALSE, value |-> DefaultLessons]
      [] file = "corrupt" -> [raised |-> FALSE, value |-> DefaultLessons]
      [] file = "unreadable" -> [raised |-> TRUE, value |-> None]
      [] file = "empty" -> [raised |-> FALSE, value |-> EmptyLessons]
      [] file = "malformed" -> [raised |-> FALSE, value |-> MalformedLessons]
      [] file = "valid" -> [raised |-> FALSE, value |-> FileLessons]

\* whether _build_phoneme_map raises: data.get on a value that is no mapping
build_phoneme_map_raises(table) ==
    \E L \in DOMAIN table : "text" \in DOMAIN table[L]

\* _load_curriculum_data, which __init__ calls last: it leaves the lesson table
\* and the phoneme map as they are
load_curriculum_data(table, pmap) == [lessons |-> table, phoneme_map |-> pmap]

\* __init__: the attributes of the new service, or raised when an exception
\* leaves the constructor
construct(file) ==
    LET loaded == load_lessons(file)
    IN  IF loaded.raised \/ build_phoneme_map_raises(loaded.value)
        THEN [raised |-> TRUE, lessons |-> EmptyLessons, phoneme_map |-> EmptyLessons]
        ELSE LET data == load_curriculum_data(loaded.value, build_phoneme_map(loaded.value))
             IN  [raised |-> FALSE, lessons |-> data.lessons, phoneme_map |-> data.phoneme_map]

\* reload_lessons: self.lessons is assigned before _build_phoneme_map runs, and
\* any exception of either step is caught
reload_lessons(table, pmap, file) ==
    LET loaded == load_lessons(file)
    IN  IF loaded.raised
        THEN [ret |-> FALSE, lessons |-> table, phoneme_map |-> pmap]
        ELSE IF build_phoneme_map_raises(loaded.value)
        THEN [ret |-> FALSE, lessons |-> loaded.value, phoneme_map |-> pmap]
        ELSE [ret |-> TRUE, lessons |-> loaded.value,
              phoneme_map |-> build_phoneme_map(loaded.value)]

\* whether get_lesson finds a lesson (its result is not None)
has_lesson(table, letter) == Upper(letter) \in DOMAIN table

\* get_lesson: lessons.get(letter.upper())
get_lesson(table, letter) ==
    IF has_lesson(table, letter) THEN table[Upper(letter)] ELSE None

CorrectFeedback(target_letter) ==
    "Great job! You said the " \o target_letter \o " sound correctly!"

IncorrectFeedback(phoneme_clue, target_letter) ==
    "Close! Try the '" \o phoneme_clue \o "' sound for " \o target_letter \o ". You can do it!"

\* check_pronunciation: (is_correct, feedback)
check_pronunciation(table, pmap, user_input, target_letter) ==
    LET user_lower == Lower(user_input)
        target_sounds == IF Upper(target_letter) \in DOMAIN pmap
                         THEN pmap[Upper(target_letter)] ELSE <<>>
        lesson == get_lesson(table, target_letter)
        phoneme_clue == IF has_lesson(table, target_letter)
                        THEN lesson.phoneme_clue ELSE Lower(target_letter)
    IN  IF AnyIn(target_sounds, user_lower)
        THEN [is_correct |-> TRUE, feedback |-> CorrectFeedback(target_letter)]
        ELSE [is_correct |-> FALSE, feedback |-> IncorrectFeedback(phoneme_clue, target_letter)]

\* get_next_letter stepping two letters
get_next_letter_two(current_letter) ==
    IF current_letter = None \/ current_letter = "" THEN "A"
    ELSE LET next_ord == Ord(Upper(current_letter)) + 2
         IN  IF next_ord <= Ord("Z") THEN Chr(next_ord) ELSE None

\* get_next_letter wrapping around after Z
get_next_letter_wrap(current_letter) ==
    IF current_letter = None \/ current_letter = "" THEN "A"
    ELSE LET next_ord == Ord(Upper(current_letter)) + 1
         IN  IF next_ord <= Ord("Z") THEN Chr(next_ord) ELSE "A"

\* get_next_letter
get_next_letter(current_letter) ==
    IF current_letter = None \/ current_letter = "" THEN "A"
    ELSE LET next_ord == Ord(Upper(current_letter)) + 1
         IN  IF next_ord <= Ord("Z") THEN Chr(next_ord) ELSE None

(***************************************************************************)
(* PhonemeService.  The phonemes are written in ASCII (X-SAMPA) for the    *)
(* IPA strings of the source: /eI/ is the long A, /ae/ the short A, ...    *)
(* A score is held in hundredths: 50 is the float 0.5                      *)
(***************************************************************************)
letter_phonemes ==
    [L \in LetterSet |->
        CASE L = "A" -> <<"/eI/", "/ae/">>
          [] L = "B" -> <<"/bi:/">>
          [] L = "C" -> <<"/si:/">>
          [] L = "D" -> <<"/di:/">>
          [] L = "E" -> <<"/i:/", "/E/">>
          [] L = "F" -> <<"/Ef/">>
          [] L = "G" -> <<"/dZi:/">>
          [] L = "H" -> <<"/eItS/">>
          [] L = "I" -> <<"/aI/", "/I/">>
          [] L = "J" -> <<"/dZeI/">>
          [] L = "K" -> <<"/keI/">>
          [] L = "L" -> <<"/El/">>
          [] L = "M" -> <<"/Em/">>
          [] L = "N" -> <<"/En/">>
          [] L = "O" -> <<"/oU/", "/Q/">>
          [] L = "P" -> <<"/pi:/">>
          [] L = "Q" -> <<"/kju:/">>
          [] L = "R" -> <<"/A:r/">>
          [] L = "S" -> <<"/Es/">>
          [] L = "T" -> <<"/ti:/">>
          [] L = "U" -> <<"/ju:/", "/V/">>
          [] L = "V" -> <<"/vi:/">>
          [] L = "W" -> <<"/dVb@lju:/">>
          [] L = "X" -> <<"/Eks/">>
          [] L = "Y" -> <<"/waI/">>
          [] L = "Z" -> <<"/zi:/", "/zEd/">>]

PatternPhonemes ==
    {"/eI/", "/ae/", "/i:/", "/E/", "/aI/", "/I/", "/oU/", "/Q/", "/ju:/", "/V/"}

phoneme_patterns ==
    [p \in PatternPhonemes |->
        CASE p = "/eI/" -> <<"ay", "a_e", "ai">>
          [] p = "/ae/" -> <<"a">>
          [] p = "/i:/" -> <<"ee", "ea", "e_e">>
          [] p = "/E/" -> <<"e">>
          [] p = "/aI/" -> <<"i_e", "igh", "y">>
          [] p = "/I/" -> <<"i">>
          [] p = "/oU/" -> <<"o_e", "oa", "ow">>
          [] p = "/Q/" -> <<"o">>
          [] p = "/ju:/" -> <<"u_e", "ue">>
          [] p = "/V/" -> <<"u">>]

pronunciation_tips ==
    [p \in PatternPhonemes |->
        CASE p = "/eI/" -> "Say 'ay' like in 'play'"
          [] p = "/ae/" -> "Say 'a' like in 'cat'"
          [] p = "/i:/" -> "Say 'ee' like in 'see'"
          [] p = "/E/" -> "Say 'e' like in 'bed'"
          [] p = "/aI/" -> "Say 'i' like in 'kite'"
          [] p = "/I/" -> "Say 'i' like in 'sit'"
          [] p = "/oU/" -> "Say 'o' like in 'go'"
          [] p = "/Q/" -> "Say 'o' like in 'hot'"
          [] p = "/ju:/" -> "Say 'u' like in 'cute'"
          [] p = "/V/" -> "Say 'u' like in 'cup'"]

mouth_tips ==
    [L \in {"A", "E", "I", "O", "U"} |->
        CASE L = "A" -> "Open your mouth wide"
          [] L = "E" -> "Smile while saying the sound"
          [] L = "I" -> "Make your mouth small and round"
          [] L = "O" -> "Make your lips round like a circle"
          [] L = "U" -> "Push your lips forward"]

RECURSIVE KeepWordAndSpace(_)
\* re.sub(r'[^\w\s]', '', s)
KeepWordAndSpace(s) ==
    IF s = "" THEN ""
    ELSE (IF IsCharOf(Head(s), WordChars) \/ IsCharOf(Head(s), SpaceChars)
          THEN CharAt(s, 1) ELSE "")
         \o KeepWordAndSpace(Tail(s))

RECURSIVE CollapseSpaces(_)
\* ' '.join(s.split()) of a stripped s: every run of spaces becomes one space
CollapseSpaces(s) ==
    IF Len(s) < 2 THEN s
    ELSE IF IsCharOf(CharAt(s, 1), SpaceChars) /\ IsCharOf(CharAt(s, 2), SpaceChars)
    THEN CollapseSpaces(Tail(s))
    ELSE CharAt(s, 1) \o CollapseSpaces(Tail(s))

\* _normalize_transcript (a transcript of None is falsy and gives "")
normalize_transcript(transcript) ==
    IF transcript = None \/ transcript = "" THEN ""
    ELSE CollapseSpaces(Strip(KeepWordAndSpace(Lower(transcript))))

\* _detect_phonemes: list(set(detected)), held as the set
detect_phonemes(transcript, target_letter) ==
    (IF Contains(Lower(target_letter), transcript)
     THEN {letter_phonemes[target_letter][n] : n \in 1..Len(letter_phonemes[target_letter])}
     ELSE {})
    \cup {p \in PatternPhonemes : AnyIn(phoneme_patterns[p], transcript)}

\* round(x, 2) of the fraction num / den, in hundredths
RoundHundredths(num, den) == (200 * num + den) \div (2 * den)

\* _calculate_accuracy adding the bonus without the cap
calculate_accuracy_uncapped(detected, expected) ==
    IF expected = <<>> \/ detected = {} THEN 0
    ELSE LET matches == Cardinality(detected \cap {expected[n] : n \in 1..Len(expected)})
             total_expected == Len(expected)
         IN  IF detected = {expected[n] : n \in 1..Len(expected)}
             THEN RoundHundredths(5 * matches + total_expected, 5 * total_expected)
             ELSE RoundHundredths(matches, total_expected)

\* _calculate_accuracy: matches / total_expected, plus 0.2 capped at 1.0 when the
\* sets are equal
calculate_accuracy(detected, expected) ==
    IF expected = <<>> \/ detected = {} THEN 0
    ELSE LET matches == Cardinality(detected \cap {expected[n] : n \in 1..Len(expected)})
             total_expected == Len(expected)
         IN  IF detected = {expected[n] : n \in 1..Len(expected)}
             THEN Min(100, RoundHundredths(5 * matches + total_expected, 5 * total_expected))
             ELSE RoundHundredths(matches, total_expected)

\* _generate_feedback
generate_feedback(accuracy, target_letter, phonics_mode) ==
    IF accuracy >= 80 THEN "Excellent! You pronounced '" \o target_letter \o "' perfectly!"
    ELSE IF accuracy >= 60
    THEN "Good job! Your '" \o target_letter \o "' sound is almost perfect."
    ELSE IF accuracy >= 40
    THEN "Nice try! Let's practice the '" \o target_letter \o "' sound together."
    ELSE IF phonics_mode
    THEN "Let's work on the '" \o target_letter \o "' sound. Listen carefully..."
    ELSE "Let's practice saying the letter '" \o target_letter \o "' together."

\* the orders in which a loop over a set can visit it
OrdersOf(S) ==
    {f \in [1..Cardinality(S) -> S] : \A x \in S : \E n \in 1..Cardinality(S) : f[n] = x}

\* _get_pronunciation_tips: the lists it can return; the tips of the missing
\* phonemes come in the order the set is iterated in
get_pronunciation_tips(detected, expected, target_letter) ==
    LET missing_phonemes == {expected[n] : n \in 1..Len(expected)} \ detected
        tipped == missing_phonemes \cap PatternPhonemes
        mouth == IF target_letter \in DOMAIN mouth_tips
                 THEN <<mouth_tips[target_letter]>> ELSE <<>>
    IN  {LET tips == (IF tipped = {}
                      THEN <<"Try saying '" \o target_letter \o "' clearly and slowly">>
                      ELSE [n \in 1..Cardinality(tipped) |-> pronunciation_tips[order[n]]])
                     \o mouth
         IN  SubSeq(tips, 1, Min(3, Len(tips))) : order \in OrdersOf(tipped)}

\* _create_error_analysis
create_error_analysis(error_msg) ==
    [detected_phonemes |-> {},
     expected_phonemes |-> <<>>,
     accuracy_score |-> 0,
     feedback |-> "Sorry, I couldn't analyze that. " \o error_msg,
     pronunciation_tips |-> <<"Please try speaking clearly into the microphone">>]

\* analyze_pronunciation taking a letter it does not know as one without phonemes
analyze_pronunciation_unchecked(audio_transcript, target_letter, phonics_mode) ==
    IF target_letter = None THEN {create_error_analysis("Analysis failed")}
    ELSE LET letter == Upper(target_letter)
             transcript == normalize_transcript(audio_transcript)
             expected_phonemes == IF letter \in LetterSet THEN letter_phonemes[letter]
                                  ELSE <<>>
             detected_phonemes ==
                 IF letter \in LetterSet THEN detect_phonemes(transcript, letter)
                 ELSE {p \in PatternPhonemes : AnyIn(phoneme_patterns[p], transcript)}
             accuracy == calculate_accuracy(detected_phonemes, expected_phonemes)
         IN  {[detected_phonemes |-> detected_phonemes,
               expected_phonemes |-> expected_phonemes,
               accuracy_score |-> accuracy,
               feedback |-> generate_feedback(accuracy, letter, phonics_mode),
               pronunciation_tips |-> tips] :
                 tips \in get_pronunciation_tips(detected_phonemes, expected_phonemes,
                                                 letter)}

\* analyze_pronunciation: the analyses it can return.  target_letter.upper() on
\* None raises inside the try, and the handler turns that into an error analysis
analyze_pronunciation(audio_transcript, target_letter, phonics_mode) ==
    IF target_letter = None THEN {create_error_analysis("Analysis failed")}
    ELSE LET letter == Upper(target_letter)
         IN  IF letter \notin LetterSet
             THEN {create_error_analysis("Invalid target letter")}
             ELSE LET transcript == normalize_transcript(audio_transcript)
                      expected_phonemes == letter_phonemes[letter]
                      detected_phonemes == detect_phonemes(transcript, letter)
                      accuracy == calculate_accuracy(detected_phonemes, expected_phonemes)
                  IN  {[detected_phonemes |-> detected_phonemes,
                        expected_phonemes |-> expected_phonemes,
                        accuracy_score |-> accuracy,
                        feedback |-> generate_feedback(accuracy, letter, phonics_mode),
                        pronunciation_tips |-> tips] :
                          tips \in get_pronunciation_tips(detected_phonemes,
                                                          expected_phonemes, letter)}

(***************************************************************************)
(* Bounds and inputs                                                       *)
(***************************************************************************)
\* MemoryService(max_turns = 3), the instance the services share
DefaultMaxTurns == 3
\* SpecMemory draws max_turns from 0..MaxTurnsBound at construction
MaxTurnsBound == 2
\* add_turn is called at most this often on a session (total_interactions is unbounded)
MaxInteractions == 1
\* the same under SpecMemory
MemoryMaxInteractions == 3
\* the same under SpecCallers
CallerMaxInteractions == 1

SessionIds == {"s1"}

\* final transcripts of the child
UserInputs == {"say ah", "gun", "skip the gun", "help", "next letter"}
\* inputs of generate_response: one that holds every letter, one that does not
ScoredInputs == {LowerChars, "say ah"}
\* the final transcripts of the voice pipeline on its own, and the number of turns
\* it stores
PipelineInputs == {"say ah", "hello", "say kill", "say gun", "damn",
                   "say my email is a@b.co", "call 555-123-4567"}
PipelineMaxInteractions == 2
\* what is said in a run of correct turns and skips, and the number of its turns
SkipInputs == {"skip", " Next Letter ", "skip the gun"}
MaxSequentialTurns == 27
\* inputs of handle_special_commands
CommandInputs == {"help", "repeat", "skip", " Next Letter ", "say ah"}
\* what is said to handle_special_commands while turns are being stored, the
\* replies those turns store, and the number of those turns
RepeatInputs == {"repeat", "What", "help"}
RepeatReplies == {"", "try again", "Great job!"}
RepeatMaxInteractions == 2
\* texts of direct add_turn calls
TurnUserTexts == {"", "my name is lily"}
TurnAssistantTexts == {"", "try again"}
\* replies of the assistant in the voice pipeline
AssistantTexts == {"", "Great job!"}
HistoryLimits == {0, 1}
\* letters of direct progress_letter calls
ProgressLetters == {"A", "B", "Z"}
\* the texts moderate_content is given: up to MaxPieces pieces, one after the other
MaxPieces == 2
Pieces ==
    {"damn", " ", "gun", "a@b.co", "123-45-6789", "555-123-4567", " 12 damn st ",
     "Say A", "my address"}

RECURSIVE TextsOf(_)
TextsOf(n) ==
    IF n = 0 THEN {""}
    ELSE TextsOf(n - 1) \cup {t \o p : t \in TextsOf(n - 1), p \in Pieces}

SafetyTexts == TextsOf(MaxPieces)

\* the violation lists generate_safe_response is given: up to MaxViolations codes
MaxViolations == 2
ViolationCodes ==
    {"inappropriate_language", "pii_detected", "unsafe_topic_gun", "unsafe_topic_phone_number"}

RECURSIVE ViolationListsOf(_)
ViolationListsOf(n) ==
    IF n = 0 THEN {<<>>}
    ELSE ViolationListsOf(n - 1)
         \cup {Append(v, c) : v \in ViolationListsOf(n - 1), c \in ViolationCodes}

ViolationLists == ViolationListsOf(MaxViolations)

\* two sessions on one service: their identifiers, the add_turn calls on each, the
\* letters progress_letter is given and the letters a skip command is issued at
SessionPair == {"s1", "s2"}
PairMaxInteractions == 1
PairLetters == {"Y"}
SkipFrom == {None, "A", "Y", "Z"}
\* what a caller writes into a returned value, and where
CallerLetters == {"Q"}
EditedTexts == {"edited"}
EditPositions == {1}
\* seconds _calculate_session_duration may find on the clock
Durations == {0, 1}

LessonTables == {DefaultLessons, FileLessons}

(***************************************************************************)
(* AgentService.process_user_input and the text functions of the other     *)
(* operations                                                              *)
(***************************************************************************)
RedirectResponse == "Let's focus on learning letters! What letter would you like to practice?"

NoMetadata == [k \in {} |-> TRUE]

\* process_user_input without the early return on unsafe content
process_user_input_no_return(user_input) ==
    LET m == moderate_content(user_input)
    IN  IF ~is_child_appropriate_request(m.cleaned_text)
        THEN [ret |-> [is_safe |-> FALSE,
                       text |-> RedirectResponse,
                       metadata |-> [inappropriate_request |-> TRUE]],
              calls |-> {"moderate_content", "is_child_appropriate_request"}]
        ELSE [ret |-> [is_safe |-> TRUE, text |-> m.cleaned_text, metadata |-> NoMetadata],
              calls |-> {"moderate_content", "is_child_appropriate_request"}]

\* process_user_input with the learning-context check ahead of the safety check
process_user_input_topic_first(user_input) ==
    LET m == moderate_content(user_input)
    IN  IF ~is_child_appropriate_request(m.cleaned_text) /\ m.is_safe
        THEN [ret |-> [is_safe |-> FALSE,
                       text |-> RedirectResponse,
                       metadata |-> [inappropriate_request |-> TRUE]],
              calls |-> {"moderate_content", "is_child_appropriate_request"}]
        ELSE IF ~m.is_safe
        THEN [ret |-> [is_safe |-> FALSE,
                       text |-> generate_safe_response(m.violations),
                       metadata |-> [violations |-> m.violations]],
              calls |-> {"moderate_content", "is_child_appropriate_request",
                         "generate_safe_response"}]
        ELSE [ret |-> [is_safe |-> TRUE, text |-> m.cleaned_text, metadata |-> NoMetadata],
              calls |-> {"moderate_content", "is_child_appropriate_request"}]

\* process_user_input: (is_safe, processed_input, metadata), and the calls made
process_user_input(user_input) ==
    LET m == moderate_content(user_input)
    IN  IF ~m.is_safe
        THEN [ret |-> [is_safe |-> FALSE,
                       text |-> generate_safe_response(m.violations),
                       metadata |-> [violations |-> m.violations]],
              calls |-> {"moderate_content", "generate_safe_response"}]
        ELSE IF ~is_child_appropriate_request(m.cleaned_text)
        THEN [ret |-> [is_safe |-> FALSE,
                       text |-> RedirectResponse,
                       metadata |-> [inappropriate_request |-> TRUE]],
              calls |-> {"moderate_content", "is_child_appropriate_request"}]
        ELSE [ret |-> [is_safe |-> TRUE, text |-> m.cleaned_text, metadata |-> NoMetadata],
              calls |-> {"moderate_content", "is_child_appropriate_request"}]

\* the branch handle_special_commands takes on user_input
command_of(user_input) ==
    LET user_lower == Strip(Lower(user_input))
    IN  IF user_lower \in {"help", "what do i do", "i don't know"} THEN "help"
        ELSE IF user_lower \in {"repeat", "say that again", "what"} THEN "repeat"
        ELSE IF Contains("next letter", user_lower) \/ Contains("skip", user_lower) THEN "skip"
        ELSE "none"

name_triggers == <<"my name is", "i'm", "i am">>

RECURSIVE NameCandidatesFrom(_, _)
\* name_candidates: per trigger found, the first token after its last occurrence
NameCandidatesFrom(user_lower, n) ==
    IF n > Len(name_triggers) THEN <<>>
    ELSE LET name_part == Strip(SplitLast(user_lower, name_triggers[n]))
         IN  (IF Contains(name_triggers[n], user_lower) /\ name_part # ""
              THEN <<FirstToken(name_part)>> ELSE <<>>)
             \o NameCandidatesFrom(user_lower, n + 1)

\* the validity test without isalpha
ValidNameAnyToken(candidate) == candidate # "" /\ Len(candidate) > 1

ValidName(candidate) == candidate # "" /\ IsAlpha(candidate) /\ Len(candidate) > 1

\* the name stored when every valid candidate overwrites the one before it: the last
\* valid candidate, capitalized
extract_name_last(user_input) ==
    LET cands == NameCandidatesFrom(Lower(user_input), 1)
        valid == {n \in 1..Len(cands) : ValidName(cands[n])}
    IN  IF valid = {} THEN None
        ELSE Capitalize(cands[CHOOSE n \in valid : \A m \in valid : m <= n])

\* the name _update_derived_state stores for user_input: the first valid candidate,
\* capitalized; None when it stores none
extract_name(user_input) ==
    LET cands == NameCandidatesFrom(Lower(user_input), 1)
        valid == {n \in 1..Len(cands) : ValidName(cands[n])}
    IN  IF valid = {} THEN None
        ELSE Capitalize(cands[CHOOSE n \in valid : \A m \in valid : n <= m])

practice_words == <<"try again", "not quite", "almost">>
praise_words == <<"great", "excellent", "perfect">>

\* the branch taken when the praise words are looked for first
response_signal_praise_first(assistant_response) ==
    IF AnyIn(praise_words, Lower(assistant_response)) THEN "praise"
    ELSE IF AnyIn(practice_words, Lower(assistant_response)) THEN "practice"
    ELSE "none"

\* the branch _update_derived_state takes on assistant_response
response_signal(assistant_response) ==
    IF AnyIn(practice_words, Lower(assistant_response)) THEN "practice"
    ELSE IF AnyIn(praise_words, Lower(assistant_response)) THEN "praise"
    ELSE "none"

\* user texts that introduce the child: a prefix, a trigger phrase, the token
\* after it (paired with the name that token is to give, None for no name) and
\* a suffix
NamePrefixes == {"", "Hi, "}
NamePhrases == {"my name is", "I'm", "i am"}
NameTokens == {<<"Lily", "Lily">>, <<"sam", "Sam">>, <<"7", None>>, <<"x", None>>,
               <<"lily!", None>>}
NameSuffixes == {"", " and you"}
NameParts == NamePrefixes \X NamePhrases \X NameTokens \X NameSuffixes
NameText(part) == part[1] \o part[2] \o " " \o part[3][1] \o part[4]
NameTexts == {NameText(part) : part \in NameParts}
\* user texts that hold several trigger phrases: <<text, the name after the first
\* phrase checked that gives a valid token, the name after the last such phrase>>,
\* the phrases being checked in the order "my name is", "i'm", "i am"
SeveralPhrases == {<<"my name is sam and i am lily", "Sam", "Lily">>,
                   <<"i am lily and my name is sam", "Sam", "Lily">>,
                   <<"I'm sam i am lily", "Sam", "Lily">>,
                   <<"i'm sam, i am lily", "Lily", "Lily">>,
                   <<"my name is 7 i'm x i am lily", "Lily", "Lily">>}
SeveralPhrasesTexts == {part[1] : part \in SeveralPhrases}

\* what the child says in turns that are stored one after the other in a
\* MemoryService that keeps one turn, the replies stored with it (each paired
\* with the kinds of phrase it holds) and the number of those turns
DerivedUserTexts == {"my name is Lily", "i am sam", "i am 7", ""}
ReplyKinds == {<<"", "neither">>,
               <<"Let's go on", "neither">>,
               <<"Almost! Try again", "practice">>,
               <<"Great job!", "praise">>,
               <<"PERFECT", "praise">>,
               <<"Great try, but not quite", "both">>}
DerivedMaxInteractions == 2

\* every text a specification passes to add_turn as user_input, as assistant_response
MemoryUserTexts ==
    TurnUserTexts \cup {""}
        \cup {process_user_input(t).ret.text : t \in UserInputs \cup PipelineInputs}
        \cup NameTexts \cup SeveralPhrasesTexts
MemoryAssistantTexts ==
    TurnAssistantTexts \cup AssistantTexts \cup {""} \cup {part[1] : part \in ReplyKinds}

\* The text functions on the texts of the model, evaluated once (the variable
\* tables holds the result): the operations look their texts up here.
TextTables(table, pmap) ==
    [processing |-> [t \in UserInputs \cup PipelineInputs |-> process_user_input(t)],
     moderation |-> [t \in UserInputs \cup PipelineInputs |-> moderate_content(t)],
     on_topic |-> [t \in UserInputs \cup PipelineInputs |-> is_child_appropriate_request(t)],
     command |-> [t \in CommandInputs \cup UserInputs \cup RepeatInputs |-> command_of(t)],
     pronunciation |-> [t \in ScoredInputs |->
                          [L \in LetterSet |->
                             check_pronunciation(table, pmap, t, L)]],
     next_letter |-> [L \in LetterSet |-> get_next_letter(L)],
     has_lesson |-> [L \in LetterSet |-> has_lesson(table, L)],
     name |-> [u \in MemoryUserTexts |-> extract_name(u)],
     signal |-> [a \in MemoryAssistantTexts |-> response_signal(a)]]

(***************************************************************************)
(* State                                                                   *)
(***************************************************************************)
VARIABLES
    sessions,     \* MemoryService.sessions
    max_turns,    \* MemoryService.max_turns
    lessons,      \* CurriculumService.lessons
    phoneme_map,  \* CurriculumService.phoneme_map
    tables,       \* the text functions on the texts of the specification
    pending,      \* the calls of generate_response and handle_special_commands that
                  \* have read current_letter and have progress_letter still to call
    advances,     \* history: the progress_letter calls since the last clear
    turns,        \* history: the turns of a run of correct turns and skips
    last          \* the last operation: its inputs, what it returned, the calls it made,
                  \* and the session's presence and letter before it

\* the callers that can be inside a turn at the same time
TurnIds == {"t1", "t2"}

\* a caller that is not between the read and the write of a turn
IdleTurn ==
    [pc |-> "idle", kind |-> "none", sid |-> None, current_letter |-> None,
     next_letter |-> None, crossed |-> FALSE, cleared |-> FALSE]

NoPending == [t \in TurnIds |-> IdleTurn]

\* fresh: progress_letter calls by turns that read after the last clear (or with
\* no clear yet); stale: by turns that had read before it; cleared: whether a
\* clear has returned true
NoAdvances == [fresh |-> 0, stale |-> 0, cleared |-> FALSE]

vars == <<sessions, max_turns, lessons, phoneme_map, tables, pending, advances, turns, last>>

(***************************************************************************)
(* MemoryService: operations on the store, a function from the session     *)
(* identifiers it holds to [history, derived_state]                        *)
(***************************************************************************)
\* a fresh session whose history starts with a greeting
FreshSessionSeeded ==
    [history |-> <<[type |-> "assistant", text |-> "Hello!", timestamp |-> 0]>>,
     derived_state |-> [current_letter |-> "A",
                        child_name |-> None,
                        difficulty |-> "easy",
                        last_mistake |-> None,
                        total_interactions |-> 0]]

\* a fresh session that counts its creation as an interaction
FreshSessionCounted ==
    [history |-> <<>>,
     derived_state |-> [current_letter |-> "A",
                        child_name |-> None,
                        difficulty |-> "easy",
                        last_mistake |-> None,
                        total_interactions |-> 1]]

\* the session get_session creates
FreshSession ==
    [history |-> <<>>,
     derived_state |-> [current_letter |-> "A",
                        child_name |-> None,
                        difficulty |-> "easy",
                        last_mistake |-> None,
                        total_interactions |-> 0]]

\* get_session: the store after the lookup (the session created when absent)
get_session(store, session_id) ==
    IF session_id \in DOMAIN store THEN store
    ELSE [k \in DOMAIN store \cup {session_id} |->
            IF k = session_id THEN FreshSession ELSE store[k]]

\* history[-n:] of Python: the last n entries, and the whole list when n = 0
SliceLast(history, n) ==
    IF n = 0 \/ n >= Len(history) THEN history
    ELSE SubSeq(history, Len(history) - n + 1, Len(history))

\* _update_derived_state storing what this turn's text gives as the name
update_derived_state_renaming(state, user_input, assistant_response) ==
    [state EXCEPT
        !.child_name = tables.name[user_input],
        !.last_mistake =
            IF tables.signal[assistant_response] = "practice" THEN user_input
            ELSE IF tables.signal[assistant_response] = "praise" THEN None
            ELSE @]

\* _update_derived_state
update_derived_state(state, user_input, assistant_response) ==
    [state EXCEPT
        !.child_name = IF tables.name[user_input] # None THEN tables.name[user_input] ELSE @,
        !.last_mistake =
            IF tables.signal[assistant_response] = "practice" THEN user_input
            ELSE IF tables.signal[assistant_response] = "praise" THEN None
            ELSE @]

\* the two entries add_turn appends to a history of a session with n interactions
TurnEntries(n, user_input, assistant_response) ==
    <<[type |-> "user", text |-> user_input, timestamp |-> 2 * n + 1],
      [type |-> "assistant", text |-> assistant_response, timestamp |-> 2 * n + 2]>>

\* add_turn counting only the turns that carry a text
add_turn_counting_texts(store, max, session_id, user_input, assistant_response) ==
    LET st == get_session(store, session_id)
        session == st[session_id]
        appended == session.history
                    \o TurnEntries(session.derived_state.total_interactions,
                                   user_input, assistant_response)
        state == update_derived_state(session.derived_state, user_input, assistant_response)
        counted == IF user_input # "" \/ assistant_response # "" THEN 1 ELSE 0
    IN  [st EXCEPT ![session_id] =
            [history |-> SliceLast(appended, max * 2),
             derived_state |-> [state EXCEPT !.total_interactions = @ + counted]]]

\* add_turn: the store after the call
add_turn(store, max, session_id, user_input, assistant_response) ==
    LET st == get_session(store, session_id)
        session == st[session_id]
        appended == session.history
                    \o TurnEntries(session.derived_state.total_interactions,
                                   user_input, assistant_response)
        max_entries == max * 2
        state == update_derived_state(session.derived_state, user_input, assistant_response)
    IN  [st EXCEPT ![session_id] =
            [history |-> SliceLast(appended, max_entries),
             derived_state |-> [state EXCEPT !.total_interactions = @ + 1]]]

\* progress_letter writing from_letter
progress_letter_from(store, session_id, from_letter, to_letter) ==
    LET st == get_session(store, session_id)
    IN  [st EXCEPT ![session_id].derived_state.current_letter = from_letter]

\* progress_letter writing only when from_letter is the stored letter
progress_letter_checked(store, session_id, from_letter, to_letter) ==
    LET st == get_session(store, session_id)
    IN  IF st[session_id].derived_state.current_letter = from_letter
        THEN [st EXCEPT ![session_id].derived_state.current_letter = to_letter]
        ELSE st

\* progress_letter: the store after the call (it returns True)
progress_letter(store, session_id, from_letter, to_letter) ==
    LET st == get_session(store, session_id)
    IN  [st EXCEPT ![session_id].derived_state.current_letter = to_letter]

\* get_derived_state: a copy of the derived state (of the store after get_session)
get_derived_state(store, session_id) == get_session(store, session_id)[session_id].derived_state

\* get_conversation_history giving the first limit entries
get_conversation_history_first(store, session_id, limit) ==
    LET history == get_session(store, session_id)[session_id].history
    IN  IF limit # 0 /\ limit < Len(history) THEN SubSeq(history, 1, limit) ELSE history

\* get_conversation_history; limit None is 0 here (both falsy): the whole window
get_conversation_history(store, session_id, limit) ==
    LET history == get_session(store, session_id)[session_id].history
    IN  IF limit # 0 THEN SliceLast(history, limit) ELSE history

\* clear_session emptying the history and keeping the session
clear_session_reset(store, session_id) ==
    IF session_id \in DOMAIN store
    THEN [store EXCEPT ![session_id].history = <<>>]
    ELSE store

\* clear_session emptying the whole store
clear_session_all(store, session_id) == [k \in {} |-> store[k]]

\* clear_session: the store after the call
clear_session(store, session_id) == [k \in DOMAIN store \ {session_id} |-> store[k]]

\* get_session_stats; duration is what _calculate_session_duration reads off the clock
get_session_stats(store, session_id, duration) ==
    LET session == get_session(store, session_id)[session_id]
        state == session.derived_state
    IN  [session_id |-> session_id,
         current_letter |-> state.current_letter,
         child_name |-> state.child_name,
         total_interactions |-> state.total_interactions,
         session_duration |-> duration,
         conversation_turns |-> Len(session.history) \div 2]

(***************************************************************************)
(* AgentService: each operation gives what it returns (ret), the store     *)
(* after it and the calls it made                                          *)
(***************************************************************************)
\* generate_response advancing whatever the score
generate_response_advancing(store, table, session_id, user_input) ==
    LET st == get_session(store, session_id)
        current_letter == get_derived_state(store, session_id).current_letter
        chk == tables.pronunciation[user_input][current_letter]
        metadata == [current_letter |-> current_letter,
                     is_correct |-> chk.is_correct,
                     needs_practice |-> ~chk.is_correct,
                     progress_made |-> FALSE]
        next_letter == tables.next_letter[current_letter]
    IN  IF next_letter # None
        THEN [ret |-> [text |-> IF tables.has_lesson[next_letter]
                                THEN chk.feedback \o " Now let's learn " \o next_letter \o "! "
                                     \o table[next_letter].prompt
                                ELSE chk.feedback \o " Great job! Let's try the letter "
                                     \o next_letter \o ".",
                       metadata |-> [current_letter |-> current_letter,
                                     is_correct |-> chk.is_correct,
                                     needs_practice |-> ~chk.is_correct,
                                     progress_made |-> TRUE,
                                     new_letter |-> next_letter]],
              store |-> progress_letter(st, session_id, current_letter, next_letter),
              calls |-> {"get_derived_state", "check_pronunciation", "get_next_letter",
                         "progress_letter"}]
        ELSE IF chk.is_correct
        THEN [ret |-> [text |-> chk.feedback
                                \o " Wow! You've learned the whole alphabet! You're amazing!",
                       metadata |-> [current_letter |-> current_letter,
                                     is_correct |-> TRUE,
                                     needs_practice |-> FALSE,
                                     progress_made |-> FALSE,
                                     curriculum_complete |-> TRUE]],
              store |-> st,
              calls |-> {"get_derived_state", "check_pronunciation", "get_next_letter"}]
        ELSE [ret |-> [text |-> chk.feedback, metadata |-> metadata],
              store |-> st,
              calls |-> {"get_derived_state", "check_pronunciation"}]

\* generate_response: (response_text, metadata)
generate_response(store, table, session_id, user_input) ==
    LET st == get_session(store, session_id)
        current_letter == get_derived_state(store, session_id).current_letter
        chk == tables.pronunciation[user_input][current_letter]
        metadata == [current_letter |-> current_letter,
                     is_correct |-> chk.is_correct,
                     needs_practice |-> ~chk.is_correct,
                     progress_made |-> FALSE]
        next_letter == tables.next_letter[current_letter]
    IN  IF chk.is_correct /\ next_letter # None
        THEN [ret |-> [text |-> IF tables.has_lesson[next_letter]
                                THEN chk.feedback \o " Now let's learn " \o next_letter \o "! "
                                     \o table[next_letter].prompt
                                ELSE chk.feedback \o " Great job! Let's try the letter "
                                     \o next_letter \o ".",
                       metadata |-> [current_letter |-> current_letter,
                                     is_correct |-> TRUE,
                                     needs_practice |-> FALSE,
                                     progress_made |-> TRUE,
                                     new_letter |-> next_letter]],
              store |-> progress_letter(st, session_id, current_letter, next_letter),
              calls |-> {"get_derived_state", "check_pronunciation", "get_next_letter",
                         "progress_letter"}]
        ELSE IF chk.is_correct
        THEN [ret |-> [text |-> chk.feedback
                                \o " Wow! You've learned the whole alphabet! You're amazing!",
                       metadata |-> [current_letter |-> current_letter,
                                     is_correct |-> TRUE,
                                     needs_practice |-> FALSE,
                                     progress_made |-> FALSE,
                                     curriculum_complete |-> TRUE]],
              store |-> st,
              calls |-> {"get_derived_state", "check_pronunciation", "get_next_letter"}]
        ELSE [ret |-> [text |-> chk.feedback, metadata |-> metadata],
              store |-> st,
              calls |-> {"get_derived_state", "check_pronunciation"}]

\* the result of handle_special_commands when it handles no command (None)
NoCommand == [text |-> None, metadata |-> NoMetadata]

\* handle_special_commands: (response_text, metadata), or None
handle_special_commands(store, table, session_id, user_input) ==
    LET command == tables.command[user_input]
        st == get_session(store, session_id)
        current_letter == st[session_id].derived_state.current_letter
    IN  IF command = "help"
        THEN [ret |-> IF tables.has_lesson[current_letter]
                      THEN [text |-> table[current_letter].prompt,
                            metadata |-> [type |-> "help"]]
                      ELSE NoCommand,
              store |-> st,
              calls |-> {"get_derived_state"}]
        ELSE IF command = "repeat"
        THEN LET history == get_conversation_history(store, session_id, 2)
             IN  [ret |-> IF history # <<>> /\ history[Len(history)].type = "assistant"
                          THEN [text |-> history[Len(history)].text,
                                metadata |-> [type |-> "repeat"]]
                          ELSE NoCommand,
                  store |-> st,
                  calls |-> {"get_conversation_history"}]
        ELSE IF command = "skip"
        THEN LET next_letter == tables.next_letter[current_letter]
             IN  IF next_letter # None
                 THEN [ret |-> [text |-> "Okay! " \o
                                    (IF tables.has_lesson[next_letter]
                                     THEN table[next_letter].prompt
                                     ELSE "Let's try " \o next_letter \o "!"),
                                metadata |-> [type |-> "skip", new_letter |-> next_letter]],
                       store |-> progress_letter(st, session_id, current_letter, next_letter),
                       calls |-> {"get_derived_state", "get_next_letter", "progress_letter"}]
                 ELSE [ret |-> NoCommand,
                       store |-> st,
                       calls |-> {"get_derived_state", "get_next_letter"}]
        ELSE [ret |-> NoCommand, store |-> store, calls |-> {}]

(***************************************************************************)
(* Actions                                                                 *)
(***************************************************************************)
Interactions(s) ==
    IF s \in DOMAIN sessions THEN sessions[s].derived_state.total_interactions ELSE 0

LetterOf(store, s) == IF s \in DOMAIN store THEN store[s].derived_state.current_letter ELSE None

Record(op, s, input, input2, ret, calls) ==
    [op |-> op, sid |-> s, input |-> input, input2 |-> input2, ret |-> ret, calls |-> calls,
     existed |-> s \in DOMAIN sessions, pre_letter |-> LetterOf(sessions, s)]

NoOperation ==
    [op |-> "init", sid |-> None, input |-> "", input2 |-> "", ret |-> None,
     calls |-> {}, existed |-> FALSE, pre_letter |-> None]

\* CurriculumService() and the shared MemoryService() constructed, no session yet
Init ==
    /\ sessions = [k \in {} |-> FreshSession]
    /\ max_turns = DefaultMaxTurns
    /\ lessons \in LessonTables
    /\ phoneme_map = build_phoneme_map(lessons)
    /\ tables = TextTables(lessons, phoneme_map)
    /\ pending = NoPending
    /\ advances = NoAdvances
    /\ turns = 0
    /\ last = NoOperation

\* the same with MemoryService(max_turns) of any small max_turns
InitMemory ==
    /\ sessions = [k \in {} |-> FreshSession]
    /\ max_turns \in 0..MaxTurnsBound
    /\ lessons = DefaultLessons
    /\ phoneme_map = build_phoneme_map(lessons)
    /\ tables = TextTables(lessons, phoneme_map)
    /\ pending = NoPending
    /\ advances = NoAdvances
    /\ turns = 0
    /\ last = NoOperation

AddTurn(s, u, a) ==
    /\ sessions' = add_turn(sessions, max_turns, s, u, a)
    /\ last' = Record("add_turn", s, u, a, sessions'[s], {"add_turn"})
    /\ UNCHANGED <<max_turns, lessons, phoneme_map, tables, pending, advances, turns>>

GetDerivedState(s) ==
    /\ sessions' = get_session(sessions, s)
    /\ last' = Record("get_derived_state", s, "", "", get_derived_state(sessions, s),
                      {"get_derived_state"})
    /\ UNCHANGED <<max_turns, lessons, phoneme_map, tables, pending, advances, turns>>

GetConversationHistory(s, limit) ==
    /\ sessions' = get_session(sessions, s)
    /\ last' = Record("get_conversation_history", s, "", "",
                      get_conversation_history(sessions, s, limit),
                      {"get_conversation_history"})
    /\ UNCHANGED <<max_turns, lessons, phoneme_map, tables, pending, advances, turns>>

ClearSession(s) ==
    /\ sessions' = clear_session(sessions, s)
    /\ last' = Record("clear_session", s, "", "", s \in DOMAIN sessions, {"clear_session"})
    /\ UNCHANGED <<max_turns, lessons, phoneme_map, tables, pending, advances, turns>>

ProgressLetter(s, from_letter, to_letter) ==
    /\ sessions' = progress_letter(sessions, s, from_letter, to_letter)
    /\ last' = Record("progress_letter", s, from_letter, to_letter, TRUE, {"progress_letter"})
    /\ UNCHANGED <<max_turns, lessons, phoneme_map, tables, pending, advances, turns>>

GetSessionStats(s, duration) ==
    /\ sessions' = get_session(sessions, s)
    /\ last' = Record("get_session_stats", s, "", "", get_session_stats(sessions, s, duration),
                      {"get_session_stats"})
    /\ UNCHANGED <<max_turns, lessons, phoneme_map, tables, pending, advances, turns>>

ProcessUserInput(s, text) ==
    /\ last' = Record("process_user_input", s, text, "",
                      tables.processing[text].ret, tables.processing[text].calls)
    /\ UNCHANGED <<sessions, max_turns, lessons, phoneme_map, tables, pending, advances, turns>>

GenerateResponse(s, text) ==
    LET r == generate_response(sessions, lessons, s, text)
    IN  /\ sessions' = r.store
        /\ last' = Record("generate_response", s, text, "", r.ret, r.calls)
        /\ UNCHANGED <<max_turns, lessons, phoneme_map, tables, pending, advances, turns>>

HandleSpecialCommands(s, text) ==
    LET r == handle_special_commands(sessions, lessons, s, text)
    IN  /\ sessions' = r.store
        /\ last' = Record("handle_special_commands", s, text, "", r.ret, r.calls)
        /\ UNCHANGED <<max_turns, lessons, phoneme_map, tables, pending, advances, turns>>

(***************************************************************************)
(* A caller changing the value the last read returned.  dict.copy(),       *)
(* list.copy() and a slice are shallow: the returned derived state is a    *)
(* new dict of immutable values, the returned history is a new list of the *)
(* stored entry dicts themselves.                                          *)
(***************************************************************************)
\* returned_state["current_letter"] = letter
CallerEditsState(s, letter) ==
    /\ last.op = "get_derived_state"
    /\ last.sid = s
    /\ sessions' = sessions
    /\ last' = Record("caller_edits_state", s, letter, "",
                      [last.ret EXCEPT !.current_letter = letter], {})
    /\ UNCHANGED <<max_turns, lessons, phoneme_map, tables, pending, advances, turns>>

\* del returned_history[i - 1]
CallerRemovesTurn(s, i) ==
    /\ last.op = "get_conversation_history"
    /\ last.sid = s
    /\ i \in 1..Len(last.ret)
    /\ sessions' = sessions
    /\ last' = Record("caller_removes_turn", s, "", "",
                      SubSeq(last.ret, 1, i - 1) \o SubSeq(last.ret, i + 1, Len(last.ret)), {})
    /\ UNCHANGED <<max_turns, lessons, phoneme_map, tables, pending, advances, turns>>

\* returned_history[i - 1]["text"] = text: the entry is the stored one, which is
\* the i-th of the last Len(returned_history) entries of the stored history
CallerEditsTurn(s, i, text) ==
    /\ last.op = "get_conversation_history"
    /\ last.sid = s
    /\ i \in 1..Len(last.ret)
    /\ LET stored == Len(sessions[s].history) - Len(last.ret) + i
       IN  sessions' = [sessions EXCEPT ![s].history[stored].text = text]
    /\ last' = Record("caller_edits_turn", s, text, "",
                      [last.ret EXCEPT ![i].text = text], {})
    /\ UNCHANGED <<max_turns, lessons, phoneme_map, tables, pending, advances, turns>>

(***************************************************************************)
(* The voice pipeline's event handlers (livekit_voice_agent.entrypoint)    *)
(***************************************************************************)
\* update_memory: add_turn unless both texts are empty
update_memory(store, max, session_id, user_input, assistant_response) ==
    IF user_input # "" \/ assistant_response # ""
    THEN add_turn(store, max, session_id, user_input, assistant_response)
    ELSE store

\* on_user_input_transcribed of a final transcript: one turn of the child
UserInputTranscribed(s, user_text) ==
    LET p == tables.processing[user_text]
        processed_input == p.ret.text
    IN  /\ sessions' = get_session(update_memory(sessions, max_turns, s, processed_input, ""), s)
        /\ last' = Record("user_input_transcribed", s, user_text, "", p.ret,
                          p.calls \cup {"process_user_input", "get_derived_state"}
                            \cup (IF processed_input # "" THEN {"add_turn"} ELSE {}))
        /\ UNCHANGED <<max_turns, lessons, phoneme_map, tables, pending, advances, turns>>

\* on_conversation_item_added of an assistant item
ConversationItemAdded(s, assistant_text) ==
    /\ sessions' = update_memory(get_session(sessions, s), max_turns, s, "", assistant_text)
    /\ last' = Record("conversation_item_added", s, "", assistant_text, None,
                      {"get_derived_state"}
                        \cup (IF assistant_text # "" THEN {"add_turn"} ELSE {}))
    /\ UNCHANGED <<max_turns, lessons, phoneme_map, tables, pending, advances, turns>>

(***************************************************************************)
(* Specifications                                                          *)
(***************************************************************************)
\* the operations that call add_turn, at most bound times per session
MemoryWrites(bound) ==
    \/ \E s \in SessionIds, u \in TurnUserTexts, a \in TurnAssistantTexts :
         Interactions(s) < bound /\ AddTurn(s, u, a)
    \/ \E s \in SessionIds, t \in UserInputs :
         Interactions(s) < bound /\ UserInputTranscribed(s, t)
    \/ \E s \in SessionIds, a \in AssistantTexts :
         Interactions(s) < bound /\ ConversationItemAdded(s, a)

MemoryReads ==
    \/ \E s \in SessionIds : GetDerivedState(s)
    \/ \E s \in SessionIds, limit \in HistoryLimits : GetConversationHistory(s, limit)
    \/ \E s \in SessionIds : ClearSession(s)
    \/ \E s \in SessionIds, d \in Durations : GetSessionStats(s, d)

\* progress_letter called directly, with any pair of letters
MemoryLetters ==
    \E s \in SessionIds, f \in ProgressLetters, t \in ProgressLetters : ProgressLetter(s, f, t)

\* what a caller does to the value a read returned
CallerMutations ==
    \/ \E s \in SessionIds, L \in CallerLetters : CallerEditsState(s, L)
    \/ \E s \in SessionIds, i \in EditPositions : CallerRemovesTurn(s, i)
    \/ \E s \in SessionIds, i \in EditPositions, t \in EditedTexts : CallerEditsTurn(s, i, t)

AgentOperations ==
    \/ \E s \in SessionIds, t \in UserInputs : ProcessUserInput(s, t)
    \/ \E s \in SessionIds, t \in ScoredInputs : GenerateResponse(s, t)
    \/ \E s \in SessionIds, t \in CommandInputs : HandleSpecialCommands(s, t)

\* the tutor: every operation, on the shared MemoryService
Next == MemoryWrites(MaxInteractions) \/ MemoryReads \/ AgentOperations

Spec == Init /\ [][Next]_vars

\* the memory and the voice pipeline, for any small max_turns
NextMemory == MemoryWrites(MemoryMaxInteractions) \/ MemoryReads

SpecMemory == InitMemory /\ [][NextMemory]_vars

\* the memory under callers that set letters directly and change what reads returned
NextCallers ==
    MemoryWrites(CallerMaxInteractions) \/ MemoryReads \/ MemoryLetters \/ CallerMutations

SpecCallers == InitMemory /\ [][NextCallers]_vars

\* two sessions on the shared MemoryService, every operation on either
InitSessions ==
    /\ sessions = [k \in {} |-> FreshSession]
    /\ max_turns = DefaultMaxTurns
    /\ lessons = DefaultLessons
    /\ phoneme_map = build_phoneme_map(lessons)
    /\ tables = TextTables(lessons, phoneme_map)
    /\ pending = NoPending
    /\ advances = NoAdvances
    /\ turns = 0
    /\ last = NoOperation

NextSessions ==
    \E s \in SessionPair :
        \/ Interactions(s) < PairMaxInteractions /\ AddTurn(s, "my name is lily", "try again")
        \/ Interactions(s) < PairMaxInteractions /\ UserInputTranscribed(s, "gun")
        \/ Interactions(s) < PairMaxInteractions /\ ConversationItemAdded(s, "Great job!")
        \/ GetDerivedState(s)
        \/ GetConversationHistory(s, 0)
        \/ GetSessionStats(s, 0)
        \/ ClearSession(s)
        \/ \E t \in PairLetters : ProgressLetter(s, "A", t)
        \/ ProcessUserInput(s, "say ah")
        \/ GenerateResponse(s, "say ah")
        \/ LetterOf(sessions, s) \in SkipFrom /\ HandleSpecialCommands(s, "skip")

SpecSessions == InitSessions /\ [][NextSessions]_vars

(***************************************************************************)
(* SafetyService on its own: a text or a violation list is given, and      *)
(* moderate_content and generate_safe_response are applied to it           *)
(***************************************************************************)
GivenText(text) == [NoOperation EXCEPT !.op = "text", !.input = text]

GivenViolations(violations) == [NoOperation EXCEPT !.op = "violations", !.input = violations]

InitSafety ==
    /\ sessions = [k \in {} |-> FreshSession]
    /\ max_turns = DefaultMaxTurns
    /\ lessons = DefaultLessons
    /\ phoneme_map = build_phoneme_map(lessons)
    /\ tables = TextTables(lessons, phoneme_map)
    /\ pending = NoPending
    /\ advances = NoAdvances
    /\ turns = 0
    /\ last \in {GivenText(t) : t \in SafetyTexts}
                \cup {GivenViolations(v) : v \in ViolationLists}

ModerateContent ==
    /\ last.op = "text"
    /\ last' = [last EXCEPT !.op = "moderate_content",
                            !.ret = moderate_content(last.input),
                            !.calls = {"moderate_content"}]
    /\ UNCHANGED <<sessions, max_turns, lessons, phoneme_map, tables, pending, advances, turns>>

\* generate_safe_response on a given list, or on the violations moderate_content
\* found (as process_user_input calls it)
GenerateSafeResponse ==
    /\ \/ last.op = "violations"
       \/ last.op = "moderate_content" /\ ~last.ret.is_safe
    /\ LET violations == IF last.op = "violations" THEN last.input ELSE last.ret.violations
       IN  last' = [last EXCEPT !.op = "generate_safe_response",
                                !.input = violations,
                                !.ret = generate_safe_response(violations),
                                !.calls = {"generate_safe_response"}]
    /\ UNCHANGED <<sessions, max_turns, lessons, phoneme_map, tables, pending, advances, turns>>

\* moderate_content applied to the cleaned text of a moderation: the caller
\* moderates what an earlier moderation handed back
ModerateAgain ==
    /\ last.op = "moderate_content"
    /\ last' = [last EXCEPT !.op = "moderate_again",
                            !.input2 = last.ret.cleaned_text,
                            !.ret = [first |-> last.ret,
                                     second |-> moderate_content(last.ret.cleaned_text)],
                            !.calls = {"moderate_content"}]
    /\ UNCHANGED <<sessions, max_turns, lessons, phoneme_map, tables, pending, advances, turns>>

NextSafety == ModerateContent \/ GenerateSafeResponse \/ ModerateAgain

SpecSafety == InitSafety /\ [][NextSafety]_vars

(***************************************************************************)
(* CurriculumService on its own: the service is constructed over a lessons *)
(* file in any state, then reloaded over a file in any state; and          *)
(* get_next_letter is asked about any letter                               *)
(***************************************************************************)
\* no text is passed to the services in this specification
NoTables == [texts |-> {}]

\* the letters get_next_letter is asked about: none, empty, capital and small
NextLetterInputs == {None, ""} \cup LetterSet \cup {"a", "y", "z"}

\* before the service is constructed
InitCurriculum ==
    /\ sessions = [k \in {} |-> FreshSession]
    /\ max_turns = DefaultMaxTurns
    /\ lessons = EmptyLessons
    /\ phoneme_map = EmptyLessons
    /\ tables = NoTables
    /\ pending = NoPending
    /\ advances = NoAdvances
    /\ turns = 0
    /\ last = NoOperation

\* CurriculumService(lessons_file) over a file in any state
Construct(file) ==
    /\ last.op = "init"
    /\ LET made == construct(file)
       IN  /\ lessons' = made.lessons
           /\ phoneme_map' = made.phoneme_map
           /\ last' = [NoOperation EXCEPT !.op = "construct", !.input = file,
                                          !.ret = IF made.raised THEN "raised"
                                                  ELSE "constructed"]
    /\ UNCHANGED <<sessions, max_turns, tables, pending, advances, turns>>

\* whether there is a service: it was constructed and the constructor did not raise
Constructed == last.op # "init" /\ ~(last.op = "construct" /\ last.ret = "raised")

ReloadLessons(file) ==
    /\ Constructed
    /\ LET done == reload_lessons(lessons, phoneme_map, file)
       IN  /\ lessons' = done.lessons
           /\ phoneme_map' = done.phoneme_map
           /\ last' = [NoOperation EXCEPT !.op = "reload_lessons", !.input = file,
                                          !.input2 = lessons, !.ret = done.ret,
                                          !.calls = {"_load_lessons"}]
    /\ UNCHANGED <<sessions, max_turns, tables, pending, advances, turns>>

GetNextLetter(current_letter) ==
    /\ Constructed
    /\ last' = [NoOperation EXCEPT !.op = "get_next_letter", !.input = current_letter,
                                   !.ret = get_next_letter(current_letter)]
    /\ UNCHANGED <<sessions, max_turns, lessons, phoneme_map, tables, pending, advances, turns>>

NextCurriculum ==
    \/ \E file \in LessonFiles : Construct(file)
    \/ \E file \in LessonFiles : ReloadLessons(file)
    \/ \E current_letter \in NextLetterInputs : GetNextLetter(current_letter)

SpecCurriculum == InitCurriculum /\ [][NextCurriculum]_vars

(***************************************************************************)
(* Introductions: add_turn on user texts that carry a trigger phrase, in a *)
(* MemoryService that keeps one turn                                       *)
(***************************************************************************)
NameMaxInteractions == 2

InitNames ==
    /\ sessions = [k \in {} |-> FreshSession]
    /\ max_turns = 1
    /\ lessons = DefaultLessons
    /\ phoneme_map = build_phoneme_map(lessons)
    /\ tables = TextTables(lessons, phoneme_map)
    /\ pending = NoPending
    /\ advances = NoAdvances
    /\ turns = 0
    /\ last = NoOperation

NextNames ==
    \E s \in SessionIds, u \in NameTexts \cup SeveralPhrasesTexts :
        Interactions(s) < NameMaxInteractions /\ AddTurn(s, u, "")

SpecNames == InitNames /\ [][NextNames]_vars

(***************************************************************************)
(* PhonemeService on its own: a transcript, a target letter and a mode are *)
(* given, and analyze_pronunciation is applied to them                     *)
(***************************************************************************)
ScorerTranscripts == {None, "", "a", "y", "Say A!", "bee", "i_e", "zed", "  cat,  and dog "}

\* target letters: capital, small, absent, empty, a digit, two letters
ScorerLetters == LetterSet \cup {"a", "i", None, "", "1", "AB"}

GivenPronunciation(transcript, target_letter, phonics_mode) ==
    [NoOperation EXCEPT !.op = "pronunciation",
                        !.input = <<transcript, target_letter, phonics_mode>>]

InitScorer ==
    /\ sessions = [k \in {} |-> FreshSession]
    /\ max_turns = DefaultMaxTurns
    /\ lessons = DefaultLessons
    /\ phoneme_map = build_phoneme_map(lessons)
    /\ tables = NoTables
    /\ pending = NoPending
    /\ advances = NoAdvances
    /\ turns = 0
    /\ last \in {GivenPronunciation(t, L, m) :
                    t \in ScorerTranscripts, L \in ScorerLetters, m \in BOOLEAN}

AnalyzePronunciation ==
    /\ last.op = "pronunciation"
    /\ \E analysis \in analyze_pronunciation(last.input[1], last.input[2], last.input[3]) :
           last' = [last EXCEPT !.op = "analyze_pronunciation",
                                !.ret = analysis,
                                !.calls = {"analyze_pronunciation"}]
    /\ UNCHANGED <<sessions, max_turns, lessons, phoneme_map, tables, pending, advances, turns>>

NextScorer == AnalyzePronunciation

SpecScorer == InitScorer /\ [][NextScorer]_vars

(***************************************************************************)
(* Turns without caller serialization.  generate_response and              *)
(* handle_special_commands are plain synchronous methods that hold no lock: *)
(* each reads current_letter with get_derived_state and later writes with  *)
(* progress_letter.  Callers on several threads interleave between the two *)
(* calls, with each other and with the clear of the memory API.  Each call *)
(* into MemoryService is one step                                          *)
(***************************************************************************)
MaxAdvances == 2

\* the inputs of the scoring turns: one that holds every letter, one for A only
InterleavedInputs == {LowerChars, "say ah"}

InitInterleaved ==
    /\ sessions = [k \in {} |-> FreshSession]
    /\ max_turns = DefaultMaxTurns
    /\ lessons = FileLessons
    /\ phoneme_map = build_phoneme_map(lessons)
    /\ tables = TextTables(lessons, phoneme_map)
    /\ pending = NoPending
    /\ advances = NoAdvances
    /\ turns = 0
    /\ last = NoOperation

\* a turn up to its progress_letter call: the read of current_letter, the
\* scoring or the skip command, and get_next_letter; a turn that has no letter
\* to write returns here
ReadTurn(t, s, kind, current_letter, writes) ==
    /\ pending[t].pc = "idle"
    /\ advances.fresh + advances.stale < MaxAdvances
    /\ sessions' = get_session(sessions, s)
    /\ pending' = [pending EXCEPT ![t] =
                      IF writes
                      THEN [pc |-> "write", kind |-> kind, sid |-> s,
                            current_letter |-> current_letter,
                            next_letter |-> tables.next_letter[current_letter],
                            crossed |-> FALSE, cleared |-> FALSE]
                      ELSE IdleTurn]
    /\ last' = Record("get_derived_state", s, t, kind, current_letter,
                      {"get_derived_state"})
    /\ UNCHANGED <<max_turns, lessons, phoneme_map, tables, advances, turns>>

\* generate_response up to its progress_letter call
BeginResponse(t, s, user_input) ==
    LET current_letter == get_derived_state(sessions, s).current_letter
        is_correct == tables.pronunciation[user_input][current_letter].is_correct
    IN  ReadTurn(t, s, "score", current_letter,
                 is_correct /\ tables.next_letter[current_letter] # None)

\* handle_special_commands on a skip phrase up to its progress_letter call
BeginSkip(t, s) ==
    LET current_letter == get_derived_state(sessions, s).current_letter
    IN  ReadTurn(t, s, "skip", current_letter, tables.next_letter[current_letter] # None)

\* the progress_letter call of a turn and its return
FinishTurn(t) ==
    /\ pending[t].pc = "write"
    /\ sessions' = progress_letter(sessions, pending[t].sid, pending[t].current_letter,
                                   pending[t].next_letter)
    /\ pending' = [u \in TurnIds |->
                      IF u = t THEN IdleTurn
                      ELSE IF pending[u].pc = "write" /\ pending[u].sid = pending[t].sid
                      THEN [pending[u] EXCEPT !.crossed = TRUE]
                      ELSE pending[u]]
    /\ advances' = IF pending[t].cleared
                   THEN [advances EXCEPT !.stale = @ + 1]
                   ELSE [advances EXCEPT !.fresh = @ + 1]
    /\ last' = Record("progress_letter", pending[t].sid, pending[t].current_letter,
                      pending[t].next_letter,
                      [crossed |-> pending[t].crossed, cleared |-> pending[t].cleared],
                      {"progress_letter"})
    /\ UNCHANGED <<max_turns, lessons, phoneme_map, tables, turns>>

\* clear_session_memory, the DELETE handler of the memory API
ClearSessionMemory(s) ==
    /\ sessions' = clear_session(sessions, s)
    /\ pending' = [u \in TurnIds |->
                      IF s \in DOMAIN sessions /\ pending[u].pc = "write" /\ pending[u].sid = s
                      THEN [pending[u] EXCEPT !.crossed = TRUE, !.cleared = TRUE]
                      ELSE pending[u]]
    /\ advances' = IF s \in DOMAIN sessions
                   THEN [fresh |-> 0, stale |-> 0, cleared |-> TRUE]
                   ELSE advances
    /\ last' = Record("clear_session", s, "", "", s \in DOMAIN sessions, {"clear_session"})
    /\ UNCHANGED <<max_turns, lessons, phoneme_map, tables, turns>>

NextInterleaved ==
    \/ \E t \in TurnIds, s \in SessionIds, u \in InterleavedInputs : BeginResponse(t, s, u)
    \/ \E t \in TurnIds, s \in SessionIds : BeginSkip(t, s)
    \/ \E t \in TurnIds : FinishTurn(t)
    \/ \E s \in SessionIds : ClearSessionMemory(s)

SpecInterleaved == InitInterleaved /\ [][NextInterleaved]_vars

(***************************************************************************)
(* Repeat requests: turns are stored with add_turn and, between them, the  *)
(* child asks the tutor to repeat or to help                               *)
(***************************************************************************)
NextRepeat ==
    \/ \E s \in SessionIds, u \in TurnUserTexts, a \in RepeatReplies :
           Interactions(s) < RepeatMaxInteractions /\ AddTurn(s, u, a)
    \/ \E s \in SessionIds, t \in RepeatInputs : HandleSpecialCommands(s, t)

SpecRepeat == InitMemory /\ [][NextRepeat]_vars

(***************************************************************************)
(* Derived state over a session's life: introductions and replies are      *)
(* stored with add_turn in a MemoryService that keeps one turn, so that    *)
(* every turn evicts the one before it, while the session is read, moved   *)
(* to the next letter and cleared                                          *)
(***************************************************************************)
NextDerived ==
    \/ \E s \in SessionIds, u \in DerivedUserTexts, part \in ReplyKinds :
           Interactions(s) < DerivedMaxInteractions /\ AddTurn(s, u, part[1])
    \/ \E s \in SessionIds : ProgressLetter(s, "A", "B")
    \/ MemoryReads

SpecDerived == InitNames /\ [][NextDerived]_vars

(***************************************************************************)
(* The voice pipeline on its own: final transcripts of every kind (safe,   *)
(* off topic, holding an unsafe topic, profanity or personal information)  *)
(* and assistant items reach the event handlers                            *)
(***************************************************************************)
NextPipeline ==
    \/ \E s \in SessionIds, t \in PipelineInputs :
           Interactions(s) < PipelineMaxInteractions /\ UserInputTranscribed(s, t)
    \/ \E s \in SessionIds, a \in AssistantTexts :
           Interactions(s) < PipelineMaxInteractions /\ ConversationItemAdded(s, a)

SpecPipeline == InitMemory /\ [][NextPipeline]_vars

(***************************************************************************)
(* A sequential run from a fresh session over the A..Z lesson table: each  *)
(* turn is a generate_response call on an input that scores correct for    *)
(* the current letter, or a skip command                                   *)
(***************************************************************************)
CorrectTurn(s, text) ==
    LET r == generate_response(sessions, lessons, s, text)
    IN  /\ turns < MaxSequentialTurns
        /\ tables.pronunciation[text][get_derived_state(sessions, s).current_letter].is_correct
        /\ sessions' = r.store
        /\ last' = Record("generate_response", s, text, "", r.ret, r.calls)
        /\ turns' = turns + 1
        /\ UNCHANGED <<max_turns, lessons, phoneme_map, tables, pending, advances>>

SkipTurn(s, text) ==
    LET r == handle_special_commands(sessions, lessons, s, text)
    IN  /\ turns < MaxSequentialTurns
        /\ sessions' = r.store
        /\ last' = Record("handle_special_commands", s, text, "", r.ret, r.calls)
        /\ turns' = turns + 1
        /\ UNCHANGED <<max_turns, lessons, phoneme_map, tables, pending, advances>>

NextSequential ==
    \/ \E s \in SessionIds, t \in ScoredInputs : CorrectTurn(s, t)
    \/ \E s \in SessionIds, t \in SkipInputs : SkipTurn(s, t)

SpecSequential == InitInterleaved /\ [][NextSequential]_vars

(***************************************************************************)
(* Properties                                                              *)
(***************************************************************************)
\* the letter after L in the alphabet
Successor(L) == CharAt(UpperChars, IndexIn(L, UpperChars) + 1)

\* the letter of the last operation's session before the operation (a session
\* created by the operation starts at A)
PreLetter == IF last.existed THEN last.pre_letter ELSE "A"

\* the letter of the last operation's session now (None without the session)
NowLetter == LetterOf(sessions, last.sid)

\* the last operation left the letter of its session as it was
LetterKept == last.sid \in DOMAIN sessions => NowLetter = PreLetter

OrchestratorOps == {"process_user_input", "generate_response", "handle_special_commands"}

\* the operations that run process_user_input on a transcript
ModeratingOps == {"user_input_transcribed", "process_user_input"}

\* C1: after add_turn the history holds at most 2 * max_turns entries, and they are
\* the most recent ones in their order: the appends numbered up to the last one
\* (2 * total_interactions), none missing while the window has room.
C1_WindowBounded ==
    \A s \in DOMAIN sessions :
        LET h == sessions[s].history
            n == 2 * sessions[s].derived_state.total_interactions
        IN  /\ Len(h) <= 2 * max_turns
            /\ Len(h) = Min(n, 2 * max_turns)
            /\ \A i \in 1..Len(h) : h[i].timestamp = n - Len(h) + i

\* C2: an orchestrator operation leaves current_letter a letter of A..Z, and either
\* where it was or at its immediate successor.
C2_ForwardOnly ==
    /\ \A s \in DOMAIN sessions : sessions[s].derived_state.current_letter \in LetterSet
    /\ (last.op \in OrchestratorOps /\ last.sid \in DOMAIN sessions)
         => \/ NowLetter = PreLetter
            \/ PreLetter # "Z" /\ NowLetter = Successor(PreLetter)

C2_Witness ==
    /\ last.op = "generate_response"
    /\ last.existed
    /\ last.pre_letter = "M"
    /\ NowLetter = "N"

\* C3: on unsafe input the turn returns the remediation text and the violations,
\* scores no pronunciation and leaves current_letter as it was.
C3_UnsafeShortCircuits ==
    (last.op \in ModeratingOps /\ ~tables.moderation[last.input].is_safe)
      => /\ last.ret.is_safe = FALSE
         /\ last.ret.text = generate_safe_response(tables.moderation[last.input].violations)
         /\ last.ret.metadata = [violations |-> tables.moderation[last.input].violations]
         /\ "check_pronunciation" \notin last.calls
         /\ LetterKept

C3_Witness ==
    /\ last.op = "user_input_transcribed"
    /\ last.input = "skip the gun"
    /\ last.ret.text = TopicResponse
    /\ last.existed
    /\ NowLetter = "C"

\* C4: on unsafe input the user entry the turn writes to the history carries the
\* child's input text.
C4_UnsafeInputStored ==
    (last.op = "user_input_transcribed" /\ ~tables.moderation[last.input].is_safe)
      => LET h == sessions[last.sid].history
         IN  /\ Len(h) >= 2
             /\ h[Len(h) - 1].type = "user"
             /\ h[Len(h) - 1].text = last.input

\* C5: at a letter L of A..Y, generate_response of an input marked correct for L
\* moves current_letter to the successor of L and reports progress_made and new_letter.
C5_CorrectAdvances ==
    (/\ last.op = "generate_response"
     /\ PreLetter # "Z"
     /\ tables.pronunciation[last.input][PreLetter].is_correct)
      => /\ NowLetter = Successor(PreLetter)
         /\ last.ret.metadata.progress_made = TRUE
         /\ last.ret.metadata.new_letter = Successor(PreLetter)

C5_Witness ==
    /\ last.op = "generate_response"
    /\ last.existed
    /\ last.pre_letter = "Y"
    /\ last.ret.metadata.is_correct
    /\ NowLetter = "Z"

\* C6: at Z, generate_response of a correct input reports curriculum_complete and
\* no progress, and current_letter stays Z; no operation but clear moves it off Z.
C6_CompleteAtZ ==
    /\ (/\ last.op = "generate_response"
        /\ PreLetter = "Z"
        /\ tables.pronunciation[last.input]["Z"].is_correct)
         => /\ "curriculum_complete" \in DOMAIN last.ret.metadata
            /\ last.ret.metadata.curriculum_complete = TRUE
            /\ last.ret.metadata.progress_made = FALSE
            /\ "new_letter" \notin DOMAIN last.ret.metadata
            /\ NowLetter = "Z"
    /\ (last.existed /\ last.pre_letter = "Z" /\ last.sid \in DOMAIN sessions)
         => NowLetter = "Z"

C6_Witness ==
    /\ last.op = "generate_response"
    /\ last.existed
    /\ last.pre_letter = "Z"
    /\ last.ret.metadata.is_correct
    /\ NowLetter = "Z"

\* C7: on safe input that is not a learning request the turn returns the redirect
\* text and inappropriate_request, scores nothing and leaves current_letter; and the
\* learning-context check runs only on text the moderation found safe.
C7_OffTopicRedirects ==
    /\ (/\ last.op \in ModeratingOps
        /\ tables.moderation[last.input].is_safe
        /\ ~tables.on_topic[last.input])
         => /\ last.ret.is_safe = FALSE
            /\ last.ret.text = RedirectResponse
            /\ last.ret.metadata = [inappropriate_request |-> TRUE]
            /\ "check_pronunciation" \notin last.calls
            /\ LetterKept
    /\ (last.op \in ModeratingOps /\ "is_child_appropriate_request" \in last.calls)
         => tables.moderation[last.input].is_safe

C7_Witness ==
    /\ last.op = "user_input_transcribed"
    /\ last.input = "help"
    /\ last.ret.text = RedirectResponse
    /\ last.existed
    /\ NowLetter = "C"

\* C8: in a turn, a safe input that is a command gets the command handler's
\* response without scoring, and an unsafe input that is a command gets the
\* remediation text and no command effect.
C8_CommandsAfterSafety ==
    (last.op = "user_input_transcribed" /\ tables.command[last.input] # "none")
      => IF tables.moderation[last.input].is_safe
         THEN /\ "handle_special_commands" \in last.calls
              /\ "check_pronunciation" \notin last.calls
         ELSE /\ last.ret.text = generate_safe_response(tables.moderation[last.input].violations)
              /\ "handle_special_commands" \notin last.calls
              /\ LetterKept

\* C9: every response path of a turn (remediation, redirect, special command,
\* correct, incorrect, completion) ends with an add_turn.
C9_EveryPathWrites ==
    (\/ last.op \in {"user_input_transcribed", "generate_response"}
     \/ last.op = "handle_special_commands" /\ last.ret # NoCommand)
      => "add_turn" \in last.calls

\* C10: get_derived_state of a session identifier that is not in the store gives
\* letter A, no interaction, no name and no mistake, and the history is empty.
C10_FreshState ==
    (last.op = "get_derived_state" /\ ~last.existed)
      => /\ last.ret.current_letter = "A"
         /\ last.ret.total_interactions = 0
         /\ last.ret.child_name = None
         /\ last.ret.last_mistake = None
         /\ last.sid \in DOMAIN sessions
         /\ sessions[last.sid].history = <<>>

C10_Witness ==
    /\ last.op = "get_derived_state"
    /\ ~last.existed
    /\ last.sid \in DOMAIN sessions
    /\ sessions[last.sid].derived_state.total_interactions = 0

\* the read operations of the memory
ReadOps == {"get_derived_state", "get_conversation_history"}

\* C11: clear_session returns True exactly when the session was in the store, never
\* creates it, and leaves the identifier absent; the next read of the identifier
\* after a clear that returned True finds a fresh session, and the next add_turn
\* gives its first interaction.
C11_ClearReports ==
    /\ [](last.op = "clear_session"
            => /\ last.ret = last.existed
               /\ last.sid \notin DOMAIN sessions)
    /\ [][(last.op = "clear_session" /\ last.ret = TRUE /\ last'.sid = last.sid)
            => /\ last'.op \in ReadOps
                    => /\ sessions'[last.sid] = FreshSession
                       /\ last'.op = "get_derived_state"
                            => last'.ret = FreshSession.derived_state
                       /\ last'.op = "get_conversation_history" => last'.ret = <<>>
               /\ last'.op = "add_turn"
                    => /\ sessions'[last.sid].derived_state.total_interactions = 1
                       /\ sessions'[last.sid].derived_state.current_letter = "A"
                       /\ Len(sessions'[last.sid].history) <= 2]_vars

\* a progressed session with a history has just been cleared
C11_Witness ==
    /\ last.op = "clear_session"
    /\ last.ret = TRUE
    /\ last.pre_letter = "C"
    /\ last.sid \notin DOMAIN sessions

\* C12: add_turn appends an entry only for a non-empty text: no history entry has an
\* empty text, and the first add_turn of a session leaves as many entries as it had
\* non-empty texts.
C12_NonEmptyEntries ==
    /\ \A s \in DOMAIN sessions :
         \A i \in 1..Len(sessions[s].history) : sessions[s].history[i].text # ""
    /\ (last.op = "add_turn" /\ ~last.existed /\ max_turns > 0)
         => Len(sessions[last.sid].history)
              = (IF last.input # "" THEN 1 ELSE 0) + (IF last.input2 # "" THEN 1 ELSE 0)

\* total_interactions of session s in a store (0 without the session)
InteractionsIn(store, s) ==
    IF s \in DOMAIN store THEN store[s].derived_state.total_interactions ELSE 0

\* C13: every add_turn raises total_interactions of its session by exactly 1,
\* whatever its texts and whether or not the window was trimmed, and no other
\* operation changes it while the session stays in the store.
C13_CountsEveryTurn ==
    [][\A s \in SessionIds :
         IF last'.sid = s /\ "add_turn" \in last'.calls
         THEN InteractionsIn(sessions', s) = InteractionsIn(sessions, s) + 1
         ELSE s \in DOMAIN sessions'
                => InteractionsIn(sessions', s) = InteractionsIn(sessions, s)]_vars

\* the third add_turn of a session, with both texts empty, on a window of one turn
C13_Witness ==
    /\ last.op = "add_turn"
    /\ last.input = ""
    /\ last.input2 = ""
    /\ max_turns = 1
    /\ InteractionsIn(sessions, last.sid) = 3
    /\ Len(sessions[last.sid].history) = 2

\* the session of identifier s in a store, as get_session finds or creates it
SessionIn(store, s) == IF s \in DOMAIN store THEN store[s] ELSE FreshSession

\* C16: progress_letter returns True and sets current_letter to to_letter whatever
\* the stored letter and from_letter are, and leaves the history, child_name,
\* last_mistake and total_interactions of the session as they were.
C16_ProgressUnconditional ==
    [][last'.op = "progress_letter"
         => LET before == SessionIn(sessions, last'.sid)
                after == sessions'[last'.sid]
            IN  /\ last'.ret = TRUE
                /\ after.derived_state.current_letter = last'.input2
                /\ after.history = before.history
                /\ after.derived_state.child_name = before.derived_state.child_name
                /\ after.derived_state.last_mistake = before.derived_state.last_mistake
                /\ after.derived_state.total_interactions
                     = before.derived_state.total_interactions]_vars

\* progress_letter('B', 'A') on a session that stood at Z and has a history
C16_Witness ==
    /\ last.op = "progress_letter"
    /\ last.existed
    /\ last.pre_letter = "Z"
    /\ last.input = "B"
    /\ last.input2 = "A"
    /\ NowLetter = "A"
    /\ Len(sessions[last.sid].history) > 0

\* C17: a read or stat operation on an identifier that is not in the store creates
\* the fresh session and returns its values: letter A, no interaction, an empty
\* history, no turn pair.
C17_ReadsCreateFresh ==
    (last.op \in ReadOps \cup {"get_session_stats"} /\ ~last.existed)
      => /\ last.sid \in DOMAIN sessions
         /\ sessions[last.sid] = FreshSession
         /\ last.op = "get_derived_state"
              => /\ last.ret.current_letter = "A"
                 /\ last.ret.total_interactions = 0
         /\ last.op = "get_conversation_history" => last.ret = <<>>
         /\ last.op = "get_session_stats"
              => /\ last.ret.session_id = last.sid
                 /\ last.ret.current_letter = "A"
                 /\ last.ret.total_interactions = 0
                 /\ last.ret.conversation_turns = 0

C17_Witness ==
    /\ last.op = "get_session_stats"
    /\ ~last.existed
    /\ last.sid \in DOMAIN sessions
    /\ last.ret.conversation_turns = 0

\* what a caller does to a returned value
CallerOps == {"caller_edits_state", "caller_removes_turn", "caller_edits_turn"}

\* C15: nothing a caller does to a value returned by get_derived_state or
\* get_conversation_history changes the stored derived state or history.
C15_ReturnedCopies ==
    [][last'.op \in CallerOps => sessions' = sessions]_vars

\* C14: an operation on session s leaves every other session as it was: neither
\* created, nor removed, nor changed in its history or derived state.
C14_SessionsIndependent ==
    [][\A t \in SessionPair \ {last'.sid} :
         /\ (t \in DOMAIN sessions') = (t \in DOMAIN sessions)
         /\ t \in DOMAIN sessions => sessions'[t] = sessions[t]]_vars

\* a cleared s1 beside a session s2 that has a turn and stands at Z
C14_Witness ==
    /\ last.op = "clear_session"
    /\ last.sid = "s1"
    /\ last.ret = TRUE
    /\ "s2" \in DOMAIN sessions
    /\ sessions["s2"].derived_state.current_letter = "Z"
    /\ sessions["s2"].derived_state.total_interactions = 1

\* the elements of a sequence
Range(seq) == {seq[n] : n \in 1..Len(seq)}

TopicCode(n) == "unsafe_topic_" \o ReplaceSpaces(unsafe_topics[n])

\* a PII pattern matches somewhere in the text
HasPii(text) == \E k \in 1..NumPiiPatterns : ReSearch(k, text)

\* C18: moderate_content runs the three stages whatever the earlier ones found:
\* the violations hold the language code exactly when the text has profanity, the
\* PII code exactly when a PII pattern matches, and the code of each unsafe topic
\* exactly when the topic occurs; and is_safe is true exactly when there is none.
C18_AllStagesRun ==
    last.op = "moderate_content"
      => LET codes == Range(last.ret.violations)
         IN  /\ ("inappropriate_language" \in codes) = ContainsProfanity(last.input)
             /\ ("pii_detected" \in codes) = HasPii(last.input)
             /\ \A n \in 1..Len(unsafe_topics) :
                  (TopicCode(n) \in codes) = Contains(unsafe_topics[n], Lower(last.input))
             /\ last.ret.is_safe = (last.ret.violations = <<>>)

\* a text with profanity, an address and an unsafe topic
C18_Witness ==
    /\ last.op = "moderate_content"
    /\ last.input = " 12 damn st gun"
    /\ last.ret.violations = <<"inappropriate_language", "pii_detected", "unsafe_topic_gun">>
    /\ ~last.ret.is_safe

\* how often a code occurs in a violation list
CountOf(code, violations) == Cardinality({n \in 1..Len(violations) : violations[n] = code})

\* C19: on a text in which a PII pattern matches, moderate_content gives
\* is_safe = False and the code pii_detected exactly once, and cleaned_text has the
\* redaction token in place of the matched spans: the token occurs in it and no PII
\* pattern (the email pattern included) matches in it any more.
C19_PiiRedacted ==
    (last.op = "moderate_content" /\ HasPii(last.input))
      => /\ last.ret.is_safe = FALSE
         /\ CountOf("pii_detected", last.ret.violations) = 1
         /\ Contains("[REMOVED]", last.ret.cleaned_text)
         /\ ~HasPii(last.ret.cleaned_text)

\* the codes of the unsafe-topic class begin with unsafe_topic_
IsTopicCode(code) == Len(code) >= 13 /\ SubSeq(code, 1, 13) = "unsafe_topic_"

RemediationTexts == {LanguageResponse, PiiResponse, TopicResponse, GenericResponse}

\* C20: generate_safe_response returns one of the four fixed texts, by priority over
\* the classes present in the list: language, then PII, then unsafe topic, else the
\* generic redirect, however many codes there are and in whatever order.
C20_RemediationPriority ==
    /\ Cardinality(RemediationTexts) = 4
    /\ last.op = "generate_safe_response"
         => LET codes == Range(last.input)
            IN  /\ last.ret \in RemediationTexts
                /\ last.ret =
                     IF "inappropriate_language" \in codes THEN LanguageResponse
                     ELSE IF "pii_detected" \in codes THEN PiiResponse
                     ELSE IF \E c \in codes : IsTopicCode(c) THEN TopicResponse
                     ELSE GenericResponse

\* the language text for a list that holds the language code last
C20_Witness ==
    /\ last.op = "generate_safe_response"
    /\ last.input = <<"unsafe_topic_gun", "inappropriate_language">>
    /\ last.ret = LanguageResponse

\* C21: moderation is idempotent on clean text: a text that moderate_content
\* reports safe is handed back unchanged as cleaned_text, and moderating that
\* cleaned text again reports safe too
C21_ModerateIdempotent ==
    /\ last.op = "moderate_content" /\ last.ret.is_safe
           => last.ret.cleaned_text = last.input
    /\ last.op = "moderate_again" /\ last.ret.first.is_safe
           => /\ last.ret.first.cleaned_text = last.input
              /\ last.input2 = last.input
              /\ last.ret.second.is_safe
              /\ last.ret.second = last.ret.first

\* a safe text of mixed case, moderated twice
C21_Witness ==
    /\ last.op = "moderate_again"
    /\ last.ret.first.is_safe
    /\ last.input = "Say A"
    /\ last.ret.second.cleaned_text = "Say A"

\* C22: get_next_letter of Z is none, of an empty or absent letter is A, and of
\* every letter A..Y is the letter right after it in the alphabet
C22_NextLetter ==
    last.op = "get_next_letter" =>
        /\ last.input = "Z" => last.ret = None
        /\ last.input \in {None, ""} => last.ret = "A"
        /\ last.input \in LetterSet \ {"Z"} =>
               /\ last.ret \in LetterSet
               /\ IndexIn(last.ret, UpperChars) = IndexIn(last.input, UpperChars) + 1

\* the last letter asked about
C22_Witness ==
    /\ last.op = "get_next_letter"
    /\ last.input = "Z"
    /\ last.ret = None

\* C23: a reload whose re-read fails because the file is missing or cannot be
\* parsed keeps the lesson table it had and returns false; the table is replaced
\* and true returned only when the re-read succeeds
C23_ReloadKeepsTable ==
    last.op = "reload_lessons" =>
        /\ last.input \in {"missing", "corrupt"} =>
               /\ last.ret = FALSE
               /\ lessons = last.input2
        /\ last.ret = TRUE => last.input \notin {"missing", "corrupt", "unreadable"}
        /\ lessons # last.input2 => last.ret = TRUE

\* C24: after construction and after any reloads, whatever the lessons file holds,
\* the service exists (no error reached the caller) and has at least one lesson
C24_NeverZeroLessons ==
    /\ last.op = "construct" /\ last.input \in {"missing", "corrupt", "malformed", "empty"}
           => last.ret = "constructed"
    /\ Constructed => Cardinality(DOMAIN lessons) >= 1

\* child_name of session s1 in a store (None while the session does not exist)
NameIn(store) ==
    IF "s1" \in DOMAIN store THEN store["s1"].derived_state.child_name ELSE None

\* C25: add_turn stores the token that follows a trigger phrase ("my name is",
\* "i'm", "i am") as child_name, capitalized, when the token is purely alphabetic
\* and longer than one character, and leaves child_name as it was otherwise
C25_NameExtraction ==
    [][\A part \in NameParts :
          last'.op = "add_turn" /\ last'.input = NameText(part)
              => NameIn(sessions') = IF part[3][2] # None THEN part[3][2]
                                     ELSE NameIn(sessions)]_vars

\* a turn has set the name Lily, and "i am 7" has then left it in place
C25_Witness ==
    /\ last.op = "add_turn"
    /\ last.input = "i am 7"
    /\ NameIn(sessions) = "Lily"

\* the expected phonemes of the last analysis, as a set
ExpectedSet == {last.ret.expected_phonemes[n] : n \in 1..Len(last.ret.expected_phonemes)}

\* C26: the scorer's accuracy is |detected \cap expected| / |expected|, plus 0.2
\* capped at 1.0 when the two sets are equal, and 0.0 when expected or detected is
\* empty; for every transcript and target letter it lies in [0, 1]
C26_AccuracyFormula ==
    last.op = "analyze_pronunciation" =>
        LET detected == last.ret.detected_phonemes
            score == last.ret.accuracy_score
        IN  /\ score >= 0 /\ score <= 100
            /\ ExpectedSet = {} \/ detected = {} => score = 0
            /\ ExpectedSet # {} /\ detected # {} /\ detected # ExpectedSet
                   => score * Cardinality(ExpectedSet)
                          = 100 * Cardinality(detected \cap ExpectedSet)
            /\ ExpectedSet # {} /\ detected = ExpectedSet => score = 100

\* "y" said for the letter I: one of the two expected phonemes, with an unexpected
\* one beside it, scores 0.5; checked together with a full match in the formula
C26_Witness ==
    /\ last.op = "analyze_pronunciation"
    /\ last.input[1] = "y"
    /\ last.input[2] = "I"
    /\ last.ret.accuracy_score = 50

\* C27: asked about a target letter outside A..Z the scorer does not raise: it
\* returns accuracy 0.0, empty detected and expected phonemes and the generic
\* error feedback
C27_InvalidLetter ==
    last.op = "analyze_pronunciation"
      /\ (last.input[2] = None \/ Upper(last.input[2]) \notin LetterSet)
        => /\ last.ret.accuracy_score = 0
           /\ last.ret.detected_phonemes = {}
           /\ last.ret.expected_phonemes = <<>>
           /\ SubSeq(last.ret.feedback, 1, 31) = "Sorry, I couldn't analyze that."

\* the digit 1 asked about with a transcript that holds vowel patterns
C27_Witness ==
    /\ last.op = "analyze_pronunciation"
    /\ last.input[2] = "1"
    /\ last.input[1] = "Say A!"
    /\ last.ret.feedback = "Sorry, I couldn't analyze that. Invalid target letter"

\* how many letters past A a session's letter is (0 while the session is absent)
LettersPast(store, s) ==
    IF s \in DOMAIN store THEN Ord(store[s].derived_state.current_letter) - Ord("A") ELSE 0

\* C28: forward-only progression without caller serialization: when turns of one
\* session interleave between a turn's read of current_letter and its
\* progress_letter write, current_letter never moves to an earlier letter and no
\* advance is lost (with no write by a turn from before a clear, the letter is as
\* many letters past A as turns have advanced it)
C28_ForwardOnlyInterleaved ==
    [][last'.op = "progress_letter" =>
          /\ LettersPast(sessions', last'.sid) >= LettersPast(sessions, last'.sid)
          /\ advances'.stale = 0
                 => LettersPast(sessions', last'.sid) = advances'.fresh]_vars

\* C28 as amended: forward-only progression holds for a turn that is serialized
\* with the other turns and clears of its session: when no other write and no
\* clear fell between its read and its progress_letter write, the write moves
\* current_letter from the letter it read to the letter right after it
C28_ForwardOnlySerialized ==
    [][last'.op = "progress_letter" /\ ~last'.ret.crossed =>
          /\ LetterOf(sessions, last'.sid) = last'.input
          /\ LetterOf(sessions', last'.sid) = Successor(last'.input)
          /\ LettersPast(sessions', last'.sid) = LettersPast(sessions, last'.sid) + 1]_vars

\* two turns one after the other, neither crossed by another write, have moved
\* the session from A to C
C28_Witness ==
    /\ last.op = "progress_letter"
    /\ ~last.ret.crossed
    /\ advances.fresh = 2
    /\ LetterOf(sessions, "s1") = "C"

\* C29: a clear is not undone by an in-flight turn: when clear returned true
\* between a turn's read of current_letter and its progress_letter write, then
\* once the turn has finished the session holds no progress from before the clear:
\* its current_letter is A unless a turn that started after the clear advanced it
C29_ClearNotUndone ==
    [][last'.op = "progress_letter" /\ last'.ret.cleared /\ advances'.fresh = 0
          => LetterOf(sessions', last'.sid) = "A"]_vars

\* C29 as amended: a clear holds until a turn that had read before it writes: after
\* clear returned true the session is absent or at A as long as no turn has
\* advanced it; a turn in flight across the clear does advance it: its
\* progress_letter call creates the session anew and stores the letter after the
\* one the turn read before the clear
C29_ClearUndoneByInFlight ==
    /\ advances.cleared /\ advances.fresh = 0 /\ advances.stale = 0
           => LetterOf(sessions, "s1") \in {None, "A"}
    /\ last.op = "progress_letter" /\ last.ret.cleared
           => /\ "s1" \in DOMAIN sessions
              /\ LetterOf(sessions, "s1") = Successor(last.input)

\* a turn read B, the session was cleared, and the turn's write has put the
\* session at C
C29_Witness ==
    /\ last.op = "progress_letter"
    /\ last.ret.cleared
    /\ last.input = "B"
    /\ advances.fresh = 0
    /\ LetterOf(sessions, "s1") = "C"

\* C30: in the voice pipeline one logical turn, a final user transcript followed by
\* the assistant's reply, leaves exactly one user entry and one assistant entry in
\* the history window and raises total_interactions by exactly 1 (stated for the
\* first exchange of a session, in a window of at least one turn)
C30_OneExchangeOneTurn ==
    [][(/\ last.op = "user_input_transcribed"
        /\ ~last.existed
        /\ last'.op = "conversation_item_added"
        /\ last'.input2 # ""
        /\ max_turns >= 1)
          => LET history == sessions'[last'.sid].history
             IN  /\ Len(history) = 2
                 /\ history[1].type = "user" /\ history[1].text = last.ret.text
                 /\ history[2].type = "assistant" /\ history[2].text = last'.input2
                 /\ InteractionsIn(sessions', last'.sid) = 1]_vars

\* whether a text holds a skip phrase
IsSkipPhrase(text) == Contains("skip", Lower(text)) \/ Contains("next letter", Lower(text))

\* C31: a skip phrase (an input holding "skip" or "next letter") moves current_letter
\* to the next letter, whether or not the input would score as correct, changes
\* nothing else and returns metadata whose new_letter is that letter; at Z the skip
\* changes no state and gives no special-command response
C31_SkipAdvances ==
    [][last'.op = "handle_special_commands" /\ IsSkipPhrase(last'.input) =>
          LET before == get_session(sessions, last'.sid)[last'.sid]
              letter == before.derived_state.current_letter
          IN  IF letter = "Z"
              THEN sessions' = sessions /\ last'.ret = NoCommand
              ELSE /\ sessions'[last'.sid]
                        = [before EXCEPT !.derived_state.current_letter = Successor(letter)]
                   /\ last'.ret.metadata = [type |-> "skip", new_letter |-> Successor(letter)]
                   /\ last'.ret.text # None]_vars

\* "skip" said at the letter S, for which it would score as correct (it holds an
\* s), has moved the session to T
C31_Witness ==
    /\ last.op = "handle_special_commands"
    /\ last.input = "skip"
    /\ lessons = FileLessons
    /\ last.existed
    /\ last.pre_letter = "S"
    /\ NowLetter = "T"
    /\ check_pronunciation(lessons, phoneme_map, "skip", "S").is_correct

\* "skip" said at Z
C31_WitnessAtZ ==
    /\ last.op = "handle_special_commands"
    /\ last.input = " Next Letter "
    /\ last.pre_letter = "Z"
    /\ last.ret = NoCommand

\* the positions of the assistant entries of a history
AssistantPositions(history) == {i \in 1..Len(history) : history[i].type = "assistant"}

\* C32: a repeat phrase returns the text of the most recent assistant entry stored in
\* the session's history, with metadata of type "repeat", and changes no session
\* state; when the history holds no assistant entry the repeat is not handled
C32_RepeatLastReply ==
    [][last'.op = "handle_special_commands"
       /\ Strip(Lower(last'.input)) \in {"repeat", "say that again", "what"} =>
          LET history == IF last'.sid \in DOMAIN sessions
                         THEN sessions[last'.sid].history ELSE <<>>
              positions == AssistantPositions(history)
          IN  IF positions # {}
              THEN /\ last'.ret = [text |-> history[SetMax(positions)].text,
                                   metadata |-> [type |-> "repeat"]]
                   /\ sessions' = sessions
              ELSE last'.ret = NoCommand]_vars

\* "What" asked after two stored turns with different replies has returned the
\* second reply
C32_Witness ==
    /\ last.op = "handle_special_commands"
    /\ last.input = "What"
    /\ last.ret.text = "Great job!"
    /\ last.sid \in DOMAIN sessions
    /\ \E i \in AssistantPositions(sessions[last.sid].history) :
           sessions[last.sid].history[i].text = "try again"

\* a repeat asked of a session that holds no turn
C32_WitnessEmpty ==
    /\ last.op = "handle_special_commands"
    /\ last.input = "repeat"
    /\ last.ret = NoCommand

\* C33: on an input scored incorrect for the current letter, generate_response returns
\* the checker's feedback text as it is, with metadata is_correct false,
\* needs_practice true and progress_made false, and leaves the session as it was
\* (a session that did not exist is the fresh one the read creates)
C33_IncorrectChangesNothing ==
    [][last'.op = "generate_response" =>
          LET before == get_session(sessions, last'.sid)
              letter == before[last'.sid].derived_state.current_letter
              scored == tables.pronunciation[last'.input][letter]
          IN  ~scored.is_correct =>
                  /\ last'.ret.text = scored.feedback
                  /\ last'.ret.metadata.is_correct = FALSE
                  /\ last'.ret.metadata.needs_practice = TRUE
                  /\ last'.ret.metadata.progress_made = FALSE
                  /\ sessions' = before]_vars

\* "say ah" scored at B, in a session that holds a turn
C33_Witness ==
    /\ last.op = "generate_response"
    /\ last.input = "say ah"
    /\ last.existed
    /\ last.pre_letter = "B"
    /\ NowLetter = "B"
    /\ last.ret.metadata.is_correct = FALSE
    /\ sessions[last.sid].history # <<>>
    /\ sessions[last.sid].derived_state.total_interactions = 1

\* C37: the metadata of the scoring path is consistent: it holds current_letter (the
\* letter the input was scored against, read before any progression), is_correct,
\* needs_practice and progress_made; needs_practice is the negation of is_correct;
\* progress_made implies is_correct and new_letter = the successor of
\* current_letter; curriculum_complete is held only when is_correct, progress_made
\* is false and current_letter is Z; progress_made and curriculum_complete are
\* never both true
C37_MetadataConsistent ==
    last.op = "generate_response" =>
        LET metadata == last.ret.metadata
            keys == DOMAIN metadata
        IN  /\ {"current_letter", "is_correct", "needs_practice", "progress_made"} \subseteq keys
            /\ metadata.current_letter = PreLetter
            /\ metadata.is_correct \in BOOLEAN
            /\ metadata.needs_practice = ~metadata.is_correct
            /\ metadata.progress_made =>
                   /\ metadata.is_correct
                   /\ "new_letter" \in keys
                   /\ metadata.new_letter = Successor(metadata.current_letter)
            /\ "curriculum_complete" \in keys =>
                   /\ metadata.is_correct
                   /\ ~metadata.progress_made
                   /\ metadata.current_letter = "Z"
            /\ ~(metadata.progress_made
                 /\ "curriculum_complete" \in keys /\ metadata.curriculum_complete)

\* a correct turn at Z has reported the end of the curriculum
C37_Witness ==
    /\ last.op = "generate_response"
    /\ "curriculum_complete" \in DOMAIN last.ret.metadata
    /\ last.ret.metadata.curriculum_complete
    /\ last.ret.metadata.current_letter = "Z"

\* a correct turn at M has advanced to N
C37_WitnessProgress ==
    /\ last.op = "generate_response"
    /\ last.ret.metadata.progress_made
    /\ last.ret.metadata.current_letter = "M"
    /\ last.ret.metadata.new_letter = "N"

\* the name now stored for the last operation's session
NameNow == sessions[last.sid].derived_state.child_name

\* C34 as stated: when several phrases of one user text each give a valid name token,
\* the child_name stored by that add_turn is the one after the last phrase checked
C34_LastPhraseWins ==
    last.op = "add_turn" =>
        \A part \in SeveralPhrases :
            last.input = part[1] /\ part[2] # part[3] => NameNow = part[3]

\* C34, amended: when several phrases of one user text give name tokens, the
\* child_name stored by that add_turn is the one after the first phrase checked
\* (in the order "my name is", "i'm", "i am") whose token is valid; a phrase
\* checked later never overwrites it
C34_FirstPhraseWins ==
    last.op = "add_turn" =>
        \A part \in SeveralPhrases : last.input = part[1] => NameNow = part[2]

\* "i am lily and my name is sam" has stored Sam
C34_Witness ==
    /\ last.op = "add_turn"
    /\ last.input = "i am lily and my name is sam"
    /\ NameNow = "Sam"

\* C35: a child_name once set survives every later operation other than clear_session:
\* add_turn on a text that gives no valid name, progress_letter, the reads and the
\* eviction of the turn that gave the name never reset it to none; it changes only
\* when a later add_turn extracts another valid name
C35_NameSurvives ==
    [][NameIn(sessions) # None /\ last'.op # "clear_session" =>
          /\ NameIn(sessions') # None
          /\ NameIn(sessions') # NameIn(sessions) =>
                 /\ last'.op = "add_turn"
                 /\ tables.name[last'.input] = NameIn(sessions')]_vars

\* the name Lily is still stored after the turn that gave it was evicted by a turn
\* whose text gives no valid name
C35_Witness ==
    /\ last.op = "add_turn"
    /\ last.input = "i am 7"
    /\ NameIn(sessions) = "Lily"
    /\ \A i \in 1..Len(sessions["s1"].history) :
           sessions["s1"].history[i].text # "my name is Lily"

\* the name Lily has been replaced by the name a later turn gave
C35_WitnessRenamed ==
    /\ last.op = "add_turn"
    /\ last.input = "i am sam"
    /\ NameIn(sessions) = "Sam"
    /\ sessions["s1"].derived_state.total_interactions = 2

\* the last_mistake a store holds for a session (None without the session)
MistakeIn(store) ==
    IF "s1" \in DOMAIN store THEN store["s1"].derived_state.last_mistake ELSE None

\* C36: on each add_turn, last_mistake is set to the turn's user text when the
\* assistant text holds a needs-practice phrase, is cleared to none when the assistant
\* text holds a praise phrase and no needs-practice phrase, and is left as it was
\* when it holds neither; the needs-practice phrase wins when both kinds occur
C36_LastMistake ==
    [][last'.op = "add_turn" =>
          \A part \in ReplyKinds :
              last'.input2 = part[1] =>
                  MistakeIn(sessions') =
                      IF part[2] \in {"practice", "both"} THEN last'.input
                      ELSE IF part[2] = "praise" THEN None
                      ELSE MistakeIn(sessions)]_vars

\* a reply holding a praise word and a needs-practice phrase has stored the turn's
\* user text as the last mistake
C36_Witness ==
    /\ last.op = "add_turn"
    /\ last.input2 = "Great try, but not quite"
    /\ last.input = "i am 7"
    /\ MistakeIn(sessions) = "i am 7"

\* a reply holding neither kind of phrase has kept the mistake of the turn before
C36_WitnessKept ==
    /\ last.op = "add_turn"
    /\ last.input2 = "Let's go on"
    /\ last.input = "i am sam"
    /\ MistakeIn(sessions) = "i am 7"

\* the fixed texts process_user_input returns in place of an input
FixedTexts == RemediationTexts \cup {RedirectResponse}

\* the texts of the user entries of the stored histories
StoredUserTexts ==
    UNION {{sessions[s].history[i].text :
               i \in {j \in 1..Len(sessions[s].history) :
                        sessions[s].history[j].type = "user"}} : s \in DOMAIN sessions}

C39_WitnessSafe ==
    /\ last.op = "user_input_transcribed"
    /\ last.input = "say ah"
    /\ "say ah" \in StoredUserTexts

\* C38: progress to completion: from a fresh session over a lesson table covering A..Z,
\* a sequential run whose every turn is scored correct for the current letter, or is
\* a skip, is one letter further after each turn (no state at a letter before Z keeps
\* a correct turn from advancing) and so stands at Z after exactly 25 turns; a
\* correct turn after that reports curriculum_complete and leaves the letter at Z
C38_ProgressToCompletion ==
    /\ LettersPast(sessions, "s1") = Min(turns, 25)
    /\ turns <= 25 /\ last.op = "generate_response" => last.ret.metadata.progress_made
    /\ turns <= 25 /\ last.op = "handle_special_commands" =>
           last.ret.metadata = [type |-> "skip", new_letter |-> NowLetter]
    /\ turns > 25 /\ last.op = "generate_response" =>
           /\ "curriculum_complete" \in DOMAIN last.ret.metadata
           /\ last.ret.metadata.curriculum_complete
           /\ NowLetter = "Z"

\* the turn after the twenty-five that led to Z was a correct one and has reported
\* the end of the curriculum
C38_Witness ==
    /\ turns = 26
    /\ last.op = "generate_response"
    /\ last.pre_letter = "Z"
    /\ last.ret.metadata.curriculum_complete

\* the twenty-fifth turn has reached Z
C38_WitnessAtZ ==
    /\ turns = 25
    /\ NowLetter = "Z"
    /\ last.pre_letter = "Y"

=============================================================================
